---- MODULE Spec2Model ----
(***************************************************************************)
(* NebulaFS: single-node object storage over HTTP.  The model covers the   *)
(* upload/download path of the HTTP session, the multipart orchestrator,   *)
(* the metadata store rows those paths touch, the on-disk layout and the   *)
(* expiry sweeper.  One step of the model is one metadata statement or one *)
(* filesystem call of the handler that issues it: handlers of different    *)
(* connections run on different worker threads and interleave at exactly   *)
(* those points.                                                           *)
(***************************************************************************)
EXTENDS Integers, Sequences, FiniteSets, TLC

\* ------------------------------------------------------------------ bounds
MaxByte == 2
MaxBody == 2
MaxPartLen == 1
MaxPart == 2
MaxUploads == 1
MaxTime == 1
MaxSteady == 6
MaxRequests == 2
MaxContent == 1

\* ------------------------------------------------------- program constants
\* kBufferSize is 8192 in the source; scaled to one byte so that a body of
\* MaxBody bytes arrives in several chunks.
kBufferSize == 1
\* storage.multipart.max_upload_ttl_seconds and cleanup.grace_period_seconds,
\* scaled to clock ticks; cleanup.max_uploads_per_sweep.
max_upload_ttl_seconds == 1
grace_period_seconds == 0
sweep_interval_seconds == 1
cache_ttl_seconds == 1
max_uploads_per_sweep == 1

\* server.limits.max_body_bytes, scaled to the bodies of the model.
max_body_bytes == 2

\* The longest name LocalStorage::IsSafeName accepts (255), scaled.
max_name_size == 3

\* auth.clock_skew_seconds, scaled to clock ticks.
clock_skew_seconds == 1

\* ------------------------------------------------------------------ values
Sessions == {"s1", "s2"}
BucketNames == {"b1", "b2"}
ObjectNames == {"o1"}
ObjKeys == BucketNames \X ObjectNames
UploadIds == 1..MaxUploads
PartNumbers == 1..MaxPart
Byte == 1..MaxByte

SeqsUpTo(S, n) == UNION {[1..k -> S] : k \in 0..n}
Bodies == SeqsUpTo(Byte, MaxBody)
PartBodies == SeqsUpTo(Byte, MaxPartLen) \ {<<>>}

Min(a, b) == IF a < b THEN a ELSE b

\* Poco::SHA2Engine256::update, fed chunk by chunk; the digest is modelled as
\* a collision-free encoding of the bytes fed so far (base MaxByte+1 numeral).
RECURSIVE Sha256Update(_, _)
Sha256Update(h, bytes) ==
    IF bytes = <<>> THEN h
    ELSE Sha256Update(h * (MaxByte + 1) + Head(bytes), Tail(bytes))

Sha256 == 0
DigestToHex(h) == h
EtagOf(bytes) == DigestToHex(Sha256Update(Sha256, bytes))
PartEtags == {EtagOf(b) : b \in PartBodies}

\* A file: live is FALSE when no file exists at the path.
NoFile == [live |-> FALSE, bytes |-> <<>>]
File(b) == [live |-> TRUE, bytes |-> b]

\* A row of the objects table (size_bytes, etag).
NoRow == [live |-> FALSE, size |-> 0, etag |-> 0]
Row(sz, e) == [live |-> TRUE, size |-> sz, etag |-> e]

\* A row of multipart_uploads.
NoUpload == [live |-> FALSE, bucket |-> "b1", object |-> "o1", state |-> "none", expires_at |-> 0]

\* Faulty variant: only completed uploads reject further requests.
OnlyCompleted == {"completed"}

\* The states in which the part upload and complete handlers reject a request.
Terminal == {"completed", "aborted", "expired"}

\* The directory <temp>/multipart/<upload_id>/: part-<N> files and the
\* complete-<uuid> reassembly files (one per completing session).
NoParts == [n \in PartNumbers |-> NoFile]
NoTmp == [s \in Sessions |-> NoFile]
NoDir == [live |-> FALSE, parts |-> NoParts, tmp |-> NoTmp]
EmptyDir == [live |-> TRUE, parts |-> NoParts, tmp |-> NoTmp]

NoPartRows == [n \in PartNumbers |-> NoRow]

\* The Content-Range header of a response: none, "bytes first-last/size" or
\* "bytes */size".
NoContentRange == [form |-> "none", first |-> 0, last |-> 0, size |-> 0]

NoResp ==
    [status |-> 0, code |-> "", etag |-> 0, size |-> 0, body |-> <<>>, uid |-> 0,
     content_range |-> NoContentRange, objects |-> <<>>]
Resp(st, c) == [NoResp EXCEPT !.status = st, !.code = c]

\* ------------------------------------------------------------ Range header
\* The characters of a Range header's numbers, and a character that is none.
Digits == <<"0", "1", "2">>
RangeChars == {Digits[i] : i \in 1..Len(Digits)} \cup {"x"}
RangeStrs == SeqsUpTo(RangeChars, MaxBody)

\* A Range header: absent, or its text split as ParseRange splits it
\* (whether it starts with "bytes=", whether a '-' follows, the text before
\* the dash and the text after it).
NoRange == [present |-> FALSE, bytes |-> FALSE, dash |-> FALSE, start_str |-> <<>>,
            end_str |-> <<>>]
RangeHeaders ==
    {[NoRange EXCEPT !.present = TRUE], [NoRange EXCEPT !.present = TRUE, !.bytes = TRUE]}
    \cup [present : {TRUE}, bytes : {TRUE}, dash : {TRUE}, start_str : RangeStrs,
          end_str : RangeStrs]

IsDigit(c) == \E i \in 1..Len(Digits) : Digits[i] = c
DigitValue(c) == (CHOOSE i \in 1..Len(Digits) : Digits[i] = c) - 1

\* std::stoull: the value of the leading digits, whatever follows them;
\* std::invalid_argument when the text does not start with a digit.
RECURSIVE LeadingValue(_, _)
LeadingValue(str, acc) ==
    IF str = <<>> \/ ~IsDigit(Head(str)) THEN acc
    ELSE LeadingValue(Tail(str), acc * 10 + DigitValue(Head(str)))

stoull(str) ==
    IF str = <<>> \/ ~IsDigit(Head(str))
    THEN [ok |-> FALSE, value |-> 0]
    ELSE [ok |-> TRUE, value |-> LeadingValue(str, 0)]

\* std::uint64_t arithmetic is modulo this number (scaled from 2^64; it
\* exceeds every number a Range header of the model can carry).
UintModulus == 1000

NoRangeRequest == [ok |-> FALSE, throws |-> FALSE, start |-> 0, end |-> 0]

\* Faulty variant: the range is not compared with the size of the file.
ParseRangeUnchecked(header, size) ==
    IF ~header.bytes \/ ~header.dash \/ header.start_str = <<>>
          \/ ~stoull(header.start_str).ok
          \/ (header.end_str # <<>> /\ ~stoull(header.end_str).ok)
    THEN NoRangeRequest
    ELSE [ok |-> TRUE, throws |-> FALSE, start |-> stoull(header.start_str).value,
          end |-> IF header.end_str = <<>> THEN (size + UintModulus - 1) % UintModulus
                  ELSE stoull(header.end_str).value]

\* ParseRange: the range to serve, std::nullopt (ok = FALSE), or an
\* exception of std::stoull.
ParseRange(header, size) ==
    IF ~header.bytes \/ ~header.dash \/ header.start_str = <<>> THEN NoRangeRequest
    ELSE LET first == stoull(header.start_str)
             last == IF header.end_str = <<>>
                     THEN [ok |-> TRUE, value |-> (size + UintModulus - 1) % UintModulus]
                     ELSE stoull(header.end_str)
         IN
         IF ~first.ok \/ ~last.ok THEN [NoRangeRequest EXCEPT !.throws = TRUE]
         ELSE IF first.value > last.value \/ first.value >= size THEN NoRangeRequest
         ELSE [ok |-> TRUE, throws |-> FALSE, start |-> first.value, end |-> last.value]

\* The client's parts list of a complete request: <<part_number, etag>> pairs.
PartLists == SeqsUpTo(PartNumbers \X PartEtags, MaxPart)

VARIABLES
    alive,      \* the server process is running
    now,        \* wall clock, in ticks
    buckets,    \* rows of the buckets table
    objRows,    \* objects table, by (bucket, name)
    objFiles,   \* <base>/buckets/<bucket>/objects/<object>
    tempFiles,  \* <temp>/<uuid> of each session's streamed upload
    uploads,    \* multipart_uploads table, by upload_id
    nextUpload, \* upload ids handed out so far
    partRows,   \* multipart_parts table, by upload_id and part_number
    mpDirs,     \* <temp>/multipart/<upload_id>/
    sess,       \* per connection: the request in progress and its locals
    sweep,      \* the cleanup task: position and the uploads left to reap
    left,       \* requests each connection may still send (negative: any number)
    track,      \* history is kept per request (constant during a run)
    auth,       \* auth.enabled, and the Authorization header of each request
    call,       \* a library function under test: its argument and its result
    timer,      \* cleanup_timer_, its clock and the threads that run its handler
    jwks,       \* JwksCache, the document at jwks_url and the callers of GetKey
    conn,       \* one connection seen byte by byte: what the client sent, what
                \* the session parsed, auth_claims_, the responses written
    pre,        \* history: the store as the request in progress found it
    prev        \* history: the exchange that preceded the request in progress

store == <<buckets, objRows, objFiles, tempFiles, uploads, nextUpload, partRows, mpDirs>>
vars == <<alive, now, buckets, objRows, objFiles, tempFiles, uploads, nextUpload,
          partRows, mpDirs, sess, sweep, left, track, auth, call, timer, jwks, conn, pre, prev>>

\* No function is under test.
\* The threads that run ioc.run(), and cleanup_timer_ when cleanup.enabled is
\* false: no timer, every thread free.
WorkerThreads == {"t1", "t2"}
NoTimer ==
    [waits |-> 0, deadline |-> 0, clock |-> 0, pc |-> [t \in WorkerThreads |-> "free"],
     expiries |-> 0, sweeps |-> 0]

\* The key ids of the model, and what jwks_url can serve: nothing (the fetch
\* fails), a body that is not a JWKS document, or a document whose usable RSA
\* keys (kty RSA, a kid, n and e that make a key) are those of a set of kids.
Kids == {"k1", "k2"}
Doc(kind, kids) == [kind |-> kind, kids |-> kids]
Unreachable == Doc("unreachable", {})
Docs == {Unreachable, Doc("garbage", {})} \cup {Doc("jwks", kids) : kids \in SUBSET Kids}

\* A thread that is not inside JwksCache::GetKey.
NoCaller ==
    [pc |-> "idle", kid |-> "k1", pass |-> 0, refreshes |-> 0, misses |-> 0, ret |-> "none",
     stale |-> FALSE, cached |-> FALSE, fetched |-> Unreachable]

\* JwksCache after construction (keys_ empty, expires_at_ the epoch, mutex_
\* free), serving the document doc.
JwksOf(doc) ==
    [keys |-> {}, expires_at |-> 0, holder |-> "none", doc |-> doc,
     th |-> [t \in WorkerThreads |-> NoCaller]]
NoJwks == JwksOf(Unreachable)

NoCall == [fn |-> "none", arg |-> <<>>, done |-> FALSE, ret |-> FALSE]

IdleSession ==
    [pc |-> "idle", kind |-> "none", bucket |-> "b1", object |-> "o1", body |-> <<>>,
     off |-> 0, hasher |-> 0, total |-> 0, uid |-> 1, pn |-> 0, expected |-> <<>>,
     listed |-> NoPartRows, idx |-> 0, upl |-> NoUpload, range |-> NoRange, resp |-> NoResp]

\* A row of the buckets table.
BucketRow(id, name, created_at) == [id |-> id, name |-> name, created_at |-> created_at]

\* The files and rows a request can read or change.
Snapshot ==
    [objRows |-> objRows, objFiles |-> objFiles, tempFiles |-> tempFiles,
     uploads |-> uploads, partRows |-> partRows, mpDirs |-> mpDirs]

\* -------------------------------------------------------------- bearer JWT
\* What JwtVerifier::Verify looks at in a token: the number of segments and
\* whether header and payload decode to JSON objects, the header fields alg
\* and kid, the payload fields iss, aud, exp and nbf (a field can be absent),
\* and whether the signature verifies under the key of kid.
NoTime == [has |-> FALSE, at |-> 0]
ExpTimes == {NoTime} \cup {[has |-> TRUE, at |-> t] :
                              t \in {0 - clock_skew_seconds - 1, 0 - clock_skew_seconds}}
NbfTimes == {NoTime} \cup {[has |-> TRUE, at |-> t] :
                              t \in {clock_skew_seconds, clock_skew_seconds + 1}}

Tokens ==
    [present : {TRUE}, form : {"two_segments", "not_json", "ok"},
     alg : {"absent", "RS256", "none"}, kid : {"absent", "", "k1", "k9"},
     iss : {"absent", "issuer", "other"}, aud : {"absent", "audience", "other"},
     exp : ExpTimes, nbf : NbfTimes, sig : BOOLEAN]

\* No Authorization header, or one that is not "Bearer <token>".
NoToken ==
    [present |-> FALSE, form |-> "ok", alg |-> "absent", kid |-> "absent", iss |-> "absent",
     aud |-> "absent", exp |-> NoTime, nbf |-> NoTime, sig |-> FALSE]

\* Faulty variant: every token is accepted.
VerifyNothing(tok, now_sec) == "ok"

\* JwtVerifier::Verify with allowed_alg RS256, the configured issuer and
\* audience, and k1 the one key of the JWKS: "ok", "unauthorized" (an Error
\* is returned), or "throws" (getValue<std::string> of an absent field throws
\* outside the try block).
Verify(tok, now_sec) ==
    IF tok.form # "ok" THEN "unauthorized"
    ELSE IF tok.alg = "absent" THEN "throws"
    ELSE IF tok.alg # "RS256" THEN "unauthorized"
    ELSE IF tok.kid = "absent" THEN "throws"
    ELSE IF tok.kid = "" THEN "unauthorized"
    ELSE IF tok.iss = "absent" THEN "throws"
    ELSE IF tok.iss # "issuer" THEN "unauthorized"
    ELSE IF tok.aud # "audience" THEN "unauthorized"
    ELSE IF ~tok.exp.has THEN "unauthorized"
    ELSE IF now_sec > tok.exp.at + clock_skew_seconds THEN "unauthorized"
    ELSE IF tok.nbf.has /\ now_sec + clock_skew_seconds < tok.nbf.at THEN "unauthorized"
    ELSE IF tok.kid # "k1" THEN "unauthorized"
    ELSE IF ~tok.sig THEN "unauthorized"
    ELSE "ok"

\* Session::IsPublicPath
IsPublicPath(path) == path \in {"/healthz", "/readyz"}

\* Session::EnsureAuthorized: "pass" (std::nullopt), "unauthorized" (the 401
\* response), or "throws".
EnsureAuthorized(path, tok) ==
    IF ~auth.enabled \/ IsPublicPath(path) THEN "pass"
    ELSE IF ~tok.present THEN "unauthorized"
    ELSE LET result == Verify(tok, now) IN
         IF result = "ok" THEN "pass" ELSE result

\* ------------------------------------------------- a connection's bytes
\* A bearer token that Verify accepts until it expires, one whose header has
\* no alg, and the subjects a payload can name.
BearerOk ==
    [present |-> TRUE, form |-> "ok", alg |-> "RS256", kid |-> "k1", iss |-> "issuer",
     aud |-> "audience", exp |-> [has |-> TRUE, at |-> 0 - clock_skew_seconds],
     nbf |-> NoTime, sig |-> TRUE]
BearerNoAlg == [BearerOk EXCEPT !.alg = "absent"]
Subjects == {"alice", "bob"}

\* auth_claims_: empty, or the claims Verify returned.
NoClaims == [has |-> FALSE, subject |-> "none"]

\* A request header as the parser delivers it: the route its method and
\* target select, the HTTP version, Content-Length, the Authorization header
\* and the sub of its payload.
Hdr(kind, version, len, tok, sub) ==
    [kind |-> kind, version |-> version, len |-> len, tok |-> tok, sub |-> sub]
NoHdr == Hdr("none", 11, 0, NoToken, "none")

\* The targets of the model: GET /v1/buckets, GET /healthz, PUT of b1/o1, PUT
\* of b1/.. (not a safe name), PUT of b2/o1 (no bucket b2), and POST
\* /v1/buckets/b1/objects without ?name=.
TargetKinds == {"list", "status", "put", "put_unsafe", "put_nobucket", "post_noname"}
UploadKinds == {"put", "put_unsafe", "put_nobucket", "post_noname"}
TargetPath(kind) == IF kind = "status" THEN "/healthz" ELSE "/v1"

Credentials ==
    {<<NoToken, "none">>, <<BearerNoAlg, "alice">>} \cup {<<BearerOk, sub>> : sub \in Subjects}

RequestHeaders ==
    {Hdr(kind, version, len, cred[1], cred[2]) :
        kind \in TargetKinds, version \in {10, 11}, len \in 0..MaxContent, cred \in Credentials}

\* A unit of what the client sends: what the client meant it to be (the
\* header of its request number req, or a part of that request's body) and
\* what an HTTP parser makes of it when it reads it as a header (hdr; NoHdr
\* when it is no request header).  A body can hold the text of a request.
WireUnit(role, req, hdr) == [role |-> role, req |-> req, hdr |-> hdr]
BodyTexts == {NoHdr, Hdr("list", 11, 0, NoToken, "none")}

\* The session of one connection before its first DoReadHeader completes.
NoConn ==
    [pc |-> "read_header", wire |-> <<>>, sent |-> 0, eof |-> FALSE, parsed |-> 0,
     cur |-> WireUnit("header", 0, NoHdr), claims |-> NoClaims, ctx |-> NoClaims,
     resp |-> NoResp, out |-> <<>>]

\* The Authorization headers the next request of a connection can carry:
\* none when auth is disabled (the header is then never looked at).
Presented(s) ==
    IF ~(alive /\ sess[s].pc \in {"idle", "done"} /\ left[s] # 0) THEN {}
    ELSE IF auth.enabled THEN Tokens \cup {NoToken}
    ELSE {NoToken}

NoPrev == [kind |-> "none", bucket |-> "b1", object |-> "o1", body |-> <<>>, uid |-> 0]

\* A store the server can have been left with by earlier requests: bucket b1,
\* object b1/o1 absent or stored with its row, and upload 1 of b1/o1 absent,
\* initiated, or uploading with the part files pf and their rows.
InitConf(obj, hasUpload, pf, exp, budget, tr, enabled) ==
    LET anyPart == \E n \in PartNumbers : pf[n].live IN
    /\ alive = TRUE
    /\ now = 0
    /\ buckets = {BucketRow(1, "b1", 0)}
    /\ objFiles = [k \in ObjKeys |-> IF k = <<"b1", "o1">> THEN obj ELSE NoFile]
    /\ objRows = [k \in ObjKeys |->
                    IF k = <<"b1", "o1">> /\ obj.live
                    THEN Row(Len(obj.bytes), EtagOf(obj.bytes)) ELSE NoRow]
    /\ tempFiles = [s \in Sessions |-> NoFile]
    /\ uploads = [u \in UploadIds |->
                    IF u = 1 /\ hasUpload
                    THEN [live |-> TRUE, bucket |-> "b1", object |-> "o1",
                          state |-> IF anyPart THEN "uploading" ELSE "initiated",
                          expires_at |-> exp]
                    ELSE NoUpload]
    /\ nextUpload = IF hasUpload THEN 1 ELSE 0
    /\ partRows = [u \in UploadIds |->
                     IF u = 1 /\ hasUpload
                     THEN [n \in PartNumbers |->
                             IF pf[n].live
                             THEN Row(Len(pf[n].bytes), EtagOf(pf[n].bytes)) ELSE NoRow]
                     ELSE NoPartRows]
    /\ mpDirs = [u \in UploadIds |->
                   IF u = 1 /\ hasUpload /\ anyPart
                   THEN [live |-> TRUE, parts |-> pf, tmp |-> NoTmp] ELSE NoDir]
    /\ sess = [s \in Sessions |-> IdleSession]
    /\ sweep = [pc |-> "idle", queue |-> <<>>]
    /\ left = budget
    /\ track = tr
    /\ auth = [enabled |-> enabled, token |-> [s \in Sessions |-> NoToken]]
    /\ pre = Snapshot
    /\ prev = NoPrev

\* The same with auth.enabled = false (the default).
InitWith(obj, hasUpload, pf, exp, budget, tr) ==
    /\ InitConf(obj, hasUpload, pf, exp, budget, tr, FALSE)
    /\ call = NoCall
    /\ timer = NoTimer
    /\ jwks = NoJwks
    /\ conn = NoConn

\* A function is called on its own, with the argument arg: no connection
\* sends a request.
InitCall(fn, arg) ==
    /\ InitConf(NoFile, FALSE, NoParts, 0, [s \in Sessions |-> 0], FALSE, FALSE)
    /\ call = [NoCall EXCEPT !.fn = fn, !.arg = arg]
    /\ timer = NoTimer
    /\ jwks = NoJwks
    /\ conn = NoConn

\* A freshly started server with bucket b1, serving one connection that may
\* send any number of requests (a negative budget is never used up).
InitSeq ==
    InitWith(NoFile, FALSE, NoParts, 0, [s \in Sessions |-> IF s = "s1" THEN -1 ELSE 0], TRUE)

\* ------------------------------------------------------- session plumbing
\* OnReadHeader: a new request is read once the previous response is out.
CanRead(s) == alive /\ sess[s].pc \in {"idle", "done"} /\ left[s] # 0

book == <<left, track, auth, call, timer, jwks, conn, pre, prev>>

\* What later claims need of a finished exchange: a PUT that was answered 200
\* (its target and body), a DELETE that was answered 200 (its target), a
\* complete or abort that was answered 200 or 204
\* (its upload), or a complete of an existing upload that was refused.
PrevOf(r) ==
    IF r.pc = "done" /\ r.kind = "put" /\ r.resp.status = 200
    THEN [NoPrev EXCEPT !.kind = "put", !.bucket = r.bucket, !.object = r.object,
                        !.body = r.body]
    ELSE IF r.pc = "done" /\ r.kind = "delete" /\ r.resp.status = 200
    THEN [NoPrev EXCEPT !.kind = "delete", !.bucket = r.bucket, !.object = r.object]
    ELSE IF r.pc = "done" /\ r.kind \in {"complete", "abort"} /\ r.resp.status \in {200, 204}
    THEN [NoPrev EXCEPT !.kind = r.kind, !.uid = r.uid]
    ELSE IF r.pc = "done" /\ r.kind = "complete" /\ r.upl.live
    THEN [NoPrev EXCEPT !.kind = "complete_failed", !.uid = r.uid]
    ELSE NoPrev

\* Bookkeeping of every request that is read: the budget and the history.
Read(s, tok) ==
    /\ left' = [left EXCEPT ![s] = IF @ > 0 THEN @ - 1 ELSE @]
    /\ auth' = [auth EXCEPT !.token[s] = tok]
    /\ pre' = IF track THEN Snapshot ELSE pre
    /\ prev' = IF track THEN PrevOf(sess[s]) ELSE prev
    /\ UNCHANGED <<track, call, timer, jwks, conn>>

\* OnReadHeader of a request to a /v1 route that EnsureAuthorized lets
\* through, in the same handler call as what the action goes on to do.
Arrive(s) ==
    \E tok \in Presented(s) :
        /\ EnsureAuthorized("/v1", tok) = "pass"
        /\ Read(s, tok)

Begin(kind, b, o) ==
    [IdleSession EXCEPT !.kind = kind, !.bucket = b, !.object = o]

\* Send: the response is written and the request's locals are dropped.
Done(r, resp) ==
    [IdleSession EXCEPT !.pc = "done", !.kind = r.kind, !.bucket = r.bucket,
                        !.object = r.object, !.body = r.body, !.uid = r.uid, !.pn = r.pn,
                        !.expected = r.expected, !.listed = r.listed, !.upl = r.upl,
                        !.range = r.range, !.resp = resp]

Key(r) == <<r.bucket, r.object>>

\* Session::OnReadHeader of a request that EnsureAuthorized does not let
\* through: the 401 response is sent before the body is read or a handler is
\* picked; an exception leaves the handler and ends the process.
OnReadHeader(s, kind, path, tok) ==
    LET r == Begin(kind, "b1", "o1")
        result == EnsureAuthorized(path, tok)
    IN
    /\ CanRead(s)
    /\ result # "pass"
    /\ Read(s, tok)
    /\ IF result = "throws"
       THEN /\ alive' = FALSE
            /\ sess' = [sess EXCEPT ![s] = [r EXCEPT !.pc = "header"]]
       ELSE /\ sess' = [sess EXCEPT ![s] = Done(r, Resp(401, "UNAUTHORIZED"))]
            /\ UNCHANGED alive
    /\ UNCHANGED <<now, store, sweep>>

\* A request to a /v1 route that is answered 401, or whose token throws.
Unauthorized(s, kind, tok) == OnReadHeader(s, kind, "/v1", tok)

\* GET /healthz, /readyz and /metrics: answered 200 by their handlers when
\* EnsureAuthorized lets the request through.
HandleStatus(s, path, tok) ==
    \/ OnReadHeader(s, path, path, tok)
    \/ /\ CanRead(s)
       /\ EnsureAuthorized(path, tok) = "pass"
       /\ Read(s, tok)
       /\ sess' = [sess EXCEPT ![s] = Done(Begin(path, "b1", "o1"), Resp(200, ""))]
       /\ UNCHANGED <<alive, now, store, sweep>>

\* SqliteMetadataStore::GetBucket
GetBucket(b) == \E row \in buckets : row.name = b

\* ------------------------------------------------------------------ names
\* Names a path can carry that are not safe, and the characters of every
\* name of the model.
UnsafeNames == {"..", "a%b"}
NameChars ==
    [n \in BucketNames \cup ObjectNames \cup UnsafeNames |->
        CASE n = "b1" -> <<"b", "1">>
          [] n = "b2" -> <<"b", "2">>
          [] n = "o1" -> <<"o", "1">>
          [] n = ".." -> <<".", ".">>
          [] n = "a%b" -> <<"a", "%", "b">>]

\* std::isalnum in the "C" locale, over the characters of the model.
isalnum(c) == c \in {"a", "b", "o", "Z", "1", "2"}

\* std::isalnum(c) || c == '-' || c == '_' || c == '.'
SafeChars == {c \in {"a", "b", "o", "Z", "1", "2", "-", "_", ".", "/", "%", "NUL"} :
                 isalnum(c) \/ c \in {"-", "_", "."}}

\* Faulty variant: "." and ".." pass.
IsSafeNameDots(name) ==
    /\ name # <<>> /\ Len(name) <= max_name_size
    /\ \A i \in 1..Len(name) : name[i] \in SafeChars

\* LocalStorage::IsSafeName, of the characters of a name.
IsSafeName(name) ==
    /\ ~(name = <<>> \/ Len(name) > max_name_size)
    /\ \A i \in 1..Len(name) : name[i] \in SafeChars
    /\ ~(name = <<".">> \/ name = <<".", ".">>)

\* A call of IsSafeName on its own.
CallIsSafeName ==
    /\ call.fn = "IsSafeName"
    /\ ~call.done
    /\ call' = [call EXCEPT !.done = TRUE, !.ret = IsSafeName(call.arg)]
    /\ UNCHANGED <<alive, now, store, sess, sweep, left, track, auth, timer, jwks, conn, pre, prev>>

\* ---------------------------------------------------------------- buckets
\* Faulty variant: the table has no UNIQUE constraint on name.
InsertBucketNotUnique(rows, name, created_at) ==
    [ok |-> TRUE, rows |-> rows \cup {BucketRow(Cardinality(rows) + 1, name, created_at)}]

\* INSERT INTO buckets(name, created_at): one statement; name is UNIQUE and
\* id is AUTOINCREMENT (no row is ever deleted from the table).
InsertBucket(rows, name, created_at) ==
    IF \E row \in rows : row.name = name
    THEN [ok |-> FALSE, rows |-> rows]
    ELSE [ok |-> TRUE, rows |-> rows \cup {BucketRow(Cardinality(rows) + 1, name, created_at)}]

\* POST /v1/buckets with body {"name": name}, up to the INSERT of
\* SqliteMetadataStore::CreateBucket.
CreateBucket(s, name) ==
    LET r == Begin("create_bucket", name, "o1")
        inserted == InsertBucket(buckets, name, now)
    IN
    /\ CanRead(s)
    /\ Arrive(s)
    /\ IF ~IsSafeName(NameChars[name])
       THEN /\ sess' = [sess EXCEPT ![s] = Done(r, Resp(400, "INVALID_NAME"))]
            /\ UNCHANGED buckets
       ELSE IF ~inserted.ok
       THEN /\ sess' = [sess EXCEPT ![s] = Done(r, Resp(409, "ALREADY_EXISTS"))]
            /\ UNCHANGED buckets
       ELSE /\ sess' = [sess EXCEPT ![s] = [r EXCEPT !.pc = "bucket_get"]]
            /\ buckets' = inserted.rows
    /\ UNCHANGED <<alive, now, objRows, objFiles, tempFiles, uploads, nextUpload, partRows,
                   mpDirs, sweep>>

\* return GetBucket(name), and the handler's response.
CreateBucketGet(s) ==
    LET r == sess[s] IN
    /\ alive
    /\ r.pc = "bucket_get"
    /\ sess' = [sess EXCEPT ![s] =
                  IF GetBucket(r.bucket) THEN Done(r, Resp(200, ""))
                  ELSE Done(r, Resp(409, "ALREADY_EXISTS"))]
    /\ UNCHANGED <<book, alive, now, store, sweep>>

\* ----------------------------------------------------------------- router
\* The longest request target the router is called on.
MaxTarget == 5

\* Faulty variant: empty segments are kept.
RECURSIVE SplitKeepEmpty(_, _, _)
SplitKeepEmpty(rest, item, parts) ==
    IF rest = <<>> THEN (IF item # <<>> THEN Append(parts, item) ELSE parts)
    ELSE IF Head(rest) = "/" THEN SplitKeepEmpty(Tail(rest), <<>>, Append(parts, item))
    ELSE SplitKeepEmpty(Tail(rest), Append(item, Head(rest)), parts)

\* The loop of Router::SplitPath: std::getline up to the next '/', items
\* that are empty are dropped.
RECURSIVE SplitLoop(_, _, _)
SplitLoop(rest, item, parts) ==
    LET kept == IF item # <<>> THEN Append(parts, item) ELSE parts IN
    IF rest = <<>> THEN kept
    ELSE IF Head(rest) = "/" THEN SplitLoop(Tail(rest), <<>>, kept)
    ELSE SplitLoop(Tail(rest), Append(item, Head(rest)), parts)

\* Router::SplitPath
SplitPath(path) == SplitLoop(path, <<>>, <<>>)

\* target.substr(0, target.find('?'))
BeforeQuery(target) ==
    IF \E i \in 1..Len(target) : target[i] = "?"
    THEN SubSeq(target, 1, (CHOOSE i \in 1..Len(target) :
                               target[i] = "?" /\ \A j \in 1..(i - 1) : target[j] # "?") - 1)
    ELSE target

\* p.size() >= 2 && p.front() == '{' && p.back() == '}'
IsParam(p) == Len(p) >= 2 /\ p[1] = "{" /\ p[Len(p)] = "}"

\* (*out_params)[name] = v, the map as a set of <<name, value>> pairs.
SetParam(params, name, v) == {q \in params : q[1] # name} \cup {<<name, v>>}

\* The loop of Router::Match over the segments from i on.
RECURSIVE MatchLoop(_, _, _, _)
MatchLoop(pattern_parts, path_parts, i, params) ==
    IF i > Len(pattern_parts) THEN [ok |-> TRUE, params |-> params]
    ELSE LET p == pattern_parts[i]
             v == path_parts[i]
         IN
         IF IsParam(p)
         THEN MatchLoop(pattern_parts, path_parts, i + 1,
                        SetParam(params, SubSeq(p, 2, Len(p) - 1), v))
         ELSE IF p # v THEN [ok |-> FALSE, params |-> params]
         ELSE MatchLoop(pattern_parts, path_parts, i + 1, params)

\* Router::Match
Match(pattern, path) ==
    LET pattern_parts == SplitPath(pattern)
        path_parts == SplitPath(path)
    IN
    IF Len(pattern_parts) # Len(path_parts) THEN [ok |-> FALSE, params |-> {}]
    ELSE MatchLoop(pattern_parts, path_parts, 1, {})

\* Routes registered with Router::Add, in order (method, pattern); the
\* handler of route i is called "handler i".
Routes ==
    << [method |-> "GET", pattern |-> <<"/", "a">>],
       [method |-> "GET", pattern |-> <<"/", "a", "/", "{", "b", "}">>],
       [method |-> "PUT", pattern |-> <<"/", "a", "/", "{", "b", "}", "/", "b">>],
       [method |-> "GET", pattern |-> <<"/", "{", "a", "}", "/", "{", "b", "}">>] >>

\* Router::Route: the first route of the request's method whose pattern
\* matches runs its handler; without one the 404 envelope is the response.
Route(method, target) ==
    LET path == BeforeQuery(target)
        hits == {i \in 1..Len(Routes) :
                    Routes[i].method = method /\ Match(Routes[i].pattern, path).ok}
    IN
    IF hits = {}
    THEN [status |-> 404, code |-> "NOT_FOUND", handler |-> 0, params |-> {}]
    ELSE LET first == CHOOSE i \in hits : \A j \in hits : i <= j IN
         [status |-> 200, code |-> "", handler |-> first,
          params |-> Match(Routes[first].pattern, path).params]

\* A call of Router::Route on its own.
CallRoute ==
    /\ call.fn = "Route"
    /\ ~call.done
    /\ call' = [call EXCEPT !.done = TRUE, !.ret = Route(call.arg.method, call.arg.target)]
    /\ UNCHANGED <<alive, now, store, sess, sweep, left, track, auth, timer, jwks, conn, pre, prev>>

\* ------------------------------------------------- single-shot PUT (stream)
\* Session::StartUpload: the names are checked, the bucket row is looked up
\* and the temp file opened.
StartUpload(s, b, o, body) ==
    LET r == [Begin("put", b, o) EXCEPT !.body = body] IN
    /\ CanRead(s)
    /\ Len(body) <= max_body_bytes
    /\ Arrive(s)
    /\ IF ~IsSafeName(NameChars[b]) \/ ~IsSafeName(NameChars[o])
       THEN /\ sess' = [sess EXCEPT ![s] = Done(r, Resp(400, "INVALID_NAME"))]
            /\ UNCHANGED tempFiles
       ELSE IF ~GetBucket(b)
       THEN /\ sess' = [sess EXCEPT ![s] = Done(r, Resp(404, "BUCKET_NOT_FOUND"))]
            /\ UNCHANGED tempFiles
       ELSE /\ tempFiles' = [tempFiles EXCEPT ![s] = File(<<>>)]
            /\ sess' = [sess EXCEPT ![s] = [r EXCEPT !.pc = "upload", !.hasher = Sha256]]
    /\ UNCHANGED <<alive, now, buckets, objRows, objFiles, uploads, nextUpload, partRows,
                   mpDirs, sweep>>

\* Session::OnReadHeader with an error code: the parser refuses a PUT whose
\* Content-Length is above body_limit. The error is logged and the handler
\* returns: nothing is sent and nothing reads the connection again.
OnReadHeaderFailed(s, b, o, body) ==
    LET r == [Begin("put", b, o) EXCEPT !.body = body] IN
    /\ CanRead(s)
    /\ Len(body) > max_body_bytes
    /\ Read(s, NoToken)
    /\ sess' = [sess EXCEPT ![s] = [r EXCEPT !.pc = "closed"]]
    /\ UNCHANGED <<alive, now, store, sweep>>

\* Session::OnUploadChunk with an error code: the client closed the
\* connection, or the read failed, before the body was complete. The error is
\* logged and the handler returns.
OnUploadChunkFailed(s) ==
    /\ alive
    /\ sess[s].pc = "upload"
    /\ sess' = [sess EXCEPT ![s].pc = "closed"]
    /\ UNCHANGED <<book, alive, now, store, sweep>>

\* The bytes async_read hands to OnUploadChunk: at most one buffer.
NextChunk(r) == SubSeq(r.body, r.off + 1, Min(Len(r.body), r.off + kBufferSize))

\* Faulty variant: the body is taken to be complete after its first buffer.
IsDoneEarly(r) == TRUE

\* parser_->is_done() after the chunk was consumed.
IsDone(r) == r.off + Len(NextChunk(r)) = Len(r.body)

\* Faulty variant: every buffer is written to the canonical path in place.
OnUploadChunkInPlace(s) ==
    LET r == sess[s]
        chunk == NextChunk(r)
        old == IF r.off = 0 THEN <<>> ELSE objFiles[Key(r)].bytes
    IN
    /\ alive
    /\ r.pc = "upload"
    /\ objFiles' = [objFiles EXCEPT ![Key(r)] = File(old \o chunk)]
    /\ sess' = [sess EXCEPT ![s] =
                  [r EXCEPT !.off = @ + Len(chunk), !.hasher = Sha256Update(@, chunk),
                            !.total = @ + Len(chunk),
                            !.pc = IF IsDone(r) THEN "put_upsert" ELSE "upload"]]
    /\ tempFiles' = [tempFiles EXCEPT ![s] = IF IsDone(r) THEN NoFile ELSE @]
    /\ UNCHANGED <<book, alive, now, buckets, objRows, uploads, nextUpload, partRows,
                   mpDirs, sweep>>

\* Session::OnUploadChunk, and Session::FinishUpload up to the rename.
OnUploadChunk(s) ==
    LET r == sess[s]
        chunk == NextChunk(r)
        written == [tempFiles[s] EXCEPT !.bytes = @ \o chunk]
        r2 == [r EXCEPT !.off = @ + Len(chunk),
                        !.hasher = Sha256Update(@, chunk),
                        !.total = @ + Len(chunk)]
    IN
    /\ alive
    /\ r.pc = "upload"
    /\ IF IsDone(r)
       THEN /\ objFiles' = [objFiles EXCEPT ![Key(r)] = written]
            /\ tempFiles' = [tempFiles EXCEPT ![s] = NoFile]
            /\ sess' = [sess EXCEPT ![s] = [r2 EXCEPT !.pc = "put_upsert"]]
       ELSE /\ tempFiles' = [tempFiles EXCEPT ![s] = written]
            /\ sess' = [sess EXCEPT ![s] = r2]
            /\ UNCHANGED objFiles
    /\ UNCHANGED <<book, alive, now, buckets, objRows, uploads, nextUpload, partRows,
                   mpDirs, sweep>>

\* SqliteMetadataStore::UpsertObject
UpsertObject(rows, b, o, sz, e) == [rows EXCEPT ![<<b, o>>] = Row(sz, e)]

\* Session::FinishUpload after the rename: the upsert and the response.
FinishUpload(s) ==
    LET r == sess[s]
        etag == DigestToHex(r.hasher)
    IN
    /\ alive
    /\ r.pc = "put_upsert"
    /\ IF ~GetBucket(r.bucket)
       THEN /\ sess' = [sess EXCEPT ![s] = Done(r, Resp(500, "METADATA_ERROR"))]
            /\ UNCHANGED objRows
       ELSE /\ objRows' = UpsertObject(objRows, r.bucket, r.object, r.total, etag)
            /\ sess' = [sess EXCEPT ![s] =
                          Done(r, [Resp(200, "") EXCEPT !.etag = etag, !.size = r.total])]
    /\ UNCHANGED <<book, alive, now, buckets, objFiles, tempFiles, uploads, nextUpload,
                   partRows, mpDirs, sweep>>

\* ------------------------------------------------------------ object GET
\* Session::HandleDownload: LocalStorage::ReadObject (the name check and the
\* existence check; every error of ReadObject is answered 404).
HandleDownload(s, b, o, header) ==
    LET r == [Begin("get", b, o) EXCEPT !.range = header] IN
    /\ CanRead(s)
    /\ Arrive(s)
    /\ sess' = [sess EXCEPT ![s] =
                  IF IsSafeName(NameChars[b]) /\ IsSafeName(NameChars[o]) /\ objFiles[<<b, o>>].live
                  THEN [r EXCEPT !.pc = "get_open"]
                  ELSE Done(r, Resp(404, "OBJECT_NOT_FOUND"))]
    /\ UNCHANGED <<alive, now, store, sweep>>

\* What the client reads as the body of a 206 response: Content-Length bytes
\* of the file from the position seek moved to.
RangeBody(bytes, start, length) == SubSeq(bytes, start + 1, Min(Len(bytes), start + length))

\* Session::HandleDownload: file_body open, the Range header, and the body
\* that is streamed from the file. An exception of ParseRange leaves the
\* handler and ends the process.
DownloadOpen(s) ==
    LET r == sess[s]
        f == objFiles[Key(r)]
        size == Len(f.bytes)
        range == ParseRange(r.range, size)
        length == range.end - range.start + 1
    IN
    /\ alive
    /\ r.pc = "get_open"
    /\ IF ~f.live
       THEN /\ sess' = [sess EXCEPT ![s] = Done(r, Resp(500, "IO_ERROR"))]
            /\ UNCHANGED alive
       ELSE IF ~r.range.present
       THEN /\ sess' = [sess EXCEPT ![s] =
                          Done(r, [Resp(200, "") EXCEPT !.body = f.bytes, !.size = size])]
            /\ UNCHANGED alive
       ELSE IF range.throws
       THEN /\ alive' = FALSE
            /\ UNCHANGED sess
       ELSE IF ~range.ok
       THEN /\ sess' = [sess EXCEPT ![s] =
                          Done(r, [Resp(416, "INVALID_RANGE") EXCEPT
                                     !.content_range = [NoContentRange EXCEPT
                                                          !.form = "star", !.size = size]])]
            /\ UNCHANGED alive
       ELSE /\ sess' = [sess EXCEPT ![s] =
                          Done(r, [Resp(206, "") EXCEPT
                                     !.body = RangeBody(f.bytes, range.start, length),
                                     !.size = length,
                                     !.content_range = [form |-> "bytes", first |-> range.start,
                                                        last |-> range.end, size |-> size]])]
            /\ UNCHANGED alive
    /\ UNCHANGED <<book, now, store, sweep>>

\* --------------------------------------------------------- object DELETE
\* DELETE object handler: LocalStorage::DeleteObject (the name check and the
\* unlink; every error is answered 404).
DeleteObject(s, b, o) ==
    LET r == Begin("delete", b, o) IN
    /\ CanRead(s)
    /\ Arrive(s)
    /\ IF IsSafeName(NameChars[b]) /\ IsSafeName(NameChars[o]) /\ objFiles[<<b, o>>].live
       THEN /\ objFiles' = [objFiles EXCEPT ![<<b, o>>] = NoFile]
            /\ sess' = [sess EXCEPT ![s] = [r EXCEPT !.pc = "del_meta"]]
       ELSE /\ sess' = [sess EXCEPT ![s] = Done(r, Resp(404, "OBJECT_NOT_FOUND"))]
            /\ UNCHANGED objFiles
    /\ UNCHANGED <<alive, now, buckets, objRows, tempFiles, uploads, nextUpload, partRows,
                   mpDirs, sweep>>

\* Faulty variant: the row is left in the table.
KeepObjectMeta(rows, b, o) == rows

\* DELETE FROM objects WHERE bucket_id = ? AND name = ?
DeleteObjectMeta(rows, b, o) == [rows EXCEPT ![<<b, o>>] = NoRow]

\* DELETE object handler: SqliteMetadataStore::DeleteObject and the response.
DeleteObjectRow(s) ==
    LET r == sess[s] IN
    /\ alive
    /\ r.pc = "del_meta"
    /\ objRows' = IF GetBucket(r.bucket) THEN DeleteObjectMeta(objRows, r.bucket, r.object)
                 ELSE objRows
    /\ sess' = [sess EXCEPT ![s] = Done(r, Resp(200, "deleted"))]
    /\ UNCHANGED <<book, alive, now, buckets, objFiles, tempFiles, uploads, nextUpload,
                   partRows, mpDirs, sweep>>

\* --------------------------------------------------------- object listing
\* The characters of the names and prefixes that are listed, with their
\* codes (unsigned char).
ListChars == {"1", "A", "_", "a", "o", "%"}
CharCode(c) ==
    CASE c = "%" -> 37 [] c = "1" -> 49 [] c = "A" -> 65
      [] c = "_" -> 95 [] c = "a" -> 97 [] c = "o" -> 111

\* What SQLite's LIKE folds a character to before it compares: ASCII letters
\* lose their case.
Fold(c) == IF c = "a" THEN "A" ELSE IF c = "o" THEN "O" ELSE c

\* text LIKE pattern, SQLite's built-in operator without ESCAPE and without
\* PRAGMA case_sensitive_like: '%' is any run of characters, '_' any one
\* character, any other character itself up to the case of ASCII letters.
RECURSIVE Like(_, _)
Like(pattern, text) ==
    IF pattern = <<>> THEN text = <<>>
    ELSE IF Head(pattern) = "%"
    THEN \E k \in 0..Len(text) : Like(Tail(pattern), SubSeq(text, k + 1, Len(text)))
    ELSE /\ text # <<>>
         /\ Head(pattern) = "_" \/ Fold(Head(pattern)) = Fold(Head(text))
         /\ Like(Tail(pattern), Tail(text))

\* x < y in the BINARY collation (memcmp, the shorter first on a tie).
RECURSIVE NameBefore(_, _)
NameBefore(x, y) ==
    IF x = <<>> THEN y # <<>>
    ELSE IF y = <<>> THEN FALSE
    ELSE IF Head(x) # Head(y) THEN CharCode(Head(x)) < CharCode(Head(y))
    ELSE NameBefore(Tail(x), Tail(y))

\* ORDER BY o.name ASC
RECURSIVE OrderByName(_)
OrderByName(names) ==
    IF names = {} THEN <<>>
    ELSE LET n == CHOOSE x \in names : \A y \in names \ {x} : NameBefore(x, y) IN
         <<n>> \o OrderByName(names \ {n})

\* SqliteMetadataStore::ListObjects over the rows of objects joined with
\* buckets (rows: the bucket's name and the object's name).
ListObjects(rows, bucket, prefix) ==
    LET like == prefix \o <<"%">> IN
    OrderByName({row.name : row \in {x \in rows : x.bucket = bucket /\ Like(like, x.name)}})

\* objects o JOIN buckets b ON o.bucket_id = b.id
JoinedRows ==
    {[bucket |-> k[1], name |-> NameChars[k[2]]] :
        k \in {x \in ObjKeys : objRows[x].live /\ GetBucket(x[1])}}

\* GET /v1/buckets/{bucket}/objects?prefix=
ListBucketObjects(s, b, prefix) ==
    LET r == Begin("list", b, "o1") IN
    /\ CanRead(s)
    /\ Arrive(s)
    /\ sess' = [sess EXCEPT ![s] =
                  Done(r, [Resp(200, "") EXCEPT !.objects = ListObjects(JoinedRows, b, prefix)])]
    /\ UNCHANGED <<alive, now, store, sweep>>

\* A call of SqliteMetadataStore::ListObjects on its own.
CallListObjects ==
    /\ call.fn = "ListObjects"
    /\ ~call.done
    /\ call' = [call EXCEPT !.done = TRUE,
                            !.ret = ListObjects(call.arg.rows, call.arg.bucket, call.arg.prefix)]
    /\ UNCHANGED <<alive, now, store, sess, sweep, left, track, auth, timer, jwks, conn, pre, prev>>

\* ------------------------------------------------------ multipart: helpers
\* ValidateUploadForBucket: the bucket row and the upload row exist and the
\* upload belongs to the bucket.
ValidateUploadForBucket(b, u) ==
    /\ GetBucket(b)
    /\ uploads[u].live
    /\ uploads[u].bucket = b

\* SqliteMetadataStore::UpdateMultipartUploadState: an unconditional UPDATE of
\* the row when it exists, an error (ignored by most callers) when it does not.
UpdateMultipartUploadState(ups, u, state) ==
    IF ups[u].live THEN [ups EXCEPT ![u].state = state] ELSE ups

\* SqliteMetadataStore::DeleteMultipartParts
DeleteMultipartParts(rows, u) == [rows EXCEPT ![u] = NoPartRows]

\* Faulty variant: the directory is left where it is.
RemoveNothing(dirs, u) == dirs

\* std::filesystem::remove_all on <temp>/multipart/<upload_id>
RemoveAll(dirs, u) == [dirs EXCEPT ![u] = NoDir]

\* What remove_all does to a part upload that holds a part file open: its
\* stream now writes to an unlinked file.
Unlinked(r, u) ==
    IF r.pc = "part_write" /\ r.uid = u THEN [r EXCEPT !.pc = "part_write_gone"] ELSE r

\* Faulty variant: the part numbers may come in any order.
ParseAnyOrder(parts) ==
    /\ parts # <<>>
    /\ \A i \in 1..Len(parts) : parts[i][1] > 0

\* ParseCompleteParts: TRUE when the list is accepted (non-empty, every
\* part_number positive, strictly increasing).
ParseCompleteParts(parts) ==
    /\ parts # <<>>
    /\ \A i \in 1..Len(parts) :
        /\ parts[i][1] > 0
        /\ parts[i][1] > (IF i = 1 THEN 0 ELSE parts[i - 1][1])

\* ----------------------------------------------------- multipart: initiate
\* POST /v1/buckets/{bucket}/multipart-uploads
InitiateUpload(s, b, o) ==
    LET r == Begin("initiate", b, o)
        u == nextUpload + 1
    IN
    /\ CanRead(s)
    /\ Arrive(s)
    /\ nextUpload < MaxUploads
    /\ IF ~GetBucket(b)
       THEN /\ sess' = [sess EXCEPT ![s] = Done(r, Resp(404, "BUCKET_NOT_FOUND"))]
            /\ UNCHANGED <<uploads, nextUpload>>
       ELSE /\ nextUpload' = u
            /\ uploads' = [uploads EXCEPT ![u] =
                             [live |-> TRUE, bucket |-> b, object |-> o, state |-> "initiated",
                              expires_at |-> now + max_upload_ttl_seconds]]
            /\ sess' = [sess EXCEPT ![s] =
                          Done([r EXCEPT !.uid = u], [Resp(200, "") EXCEPT !.uid = u])]
    /\ UNCHANGED <<alive, now, buckets, objRows, objFiles, tempFiles, partRows, mpDirs, sweep>>

\* -------------------------------------------------- multipart: part upload
\* PUT .../parts/{n}: ParsePositiveInt, ValidateUploadForBucket, state check.
UploadPart(s, b, u, n, body) ==
    LET r == [Begin("part", b, "o1") EXCEPT !.uid = u, !.pn = n, !.body = body,
                                            !.upl = uploads[u]]
    IN
    /\ CanRead(s)
    /\ Arrive(s)
    /\ sess' = [sess EXCEPT ![s] =
                  IF n <= 0 THEN Done([r EXCEPT !.upl = NoUpload], Resp(400, "INVALID_PART_NUMBER"))
                  ELSE IF ~ValidateUploadForBucket(b, u)
                  THEN Done([r EXCEPT !.upl = NoUpload], Resp(404, "UPLOAD_NOT_FOUND"))
                  ELSE IF uploads[u].state \in Terminal
                  THEN Done(r, Resp(409, "INVALID_STATE"))
                  ELSE [r EXCEPT !.pc = "part_mkdir"]]
    /\ UNCHANGED <<alive, now, store, sweep>>

\* std::filesystem::create_directories on the part file's directory
PartMkdir(s) ==
    LET r == sess[s] IN
    /\ alive
    /\ r.pc = "part_mkdir"
    /\ mpDirs' = [mpDirs EXCEPT ![r.uid] = IF @.live THEN @ ELSE EmptyDir]
    /\ sess' = [sess EXCEPT ![s].pc = "part_open"]
    /\ UNCHANGED <<book, alive, now, buckets, objRows, objFiles, tempFiles, uploads, nextUpload,
                   partRows, sweep>>

\* Faulty variant: the file is opened without being emptied.
KeepBytes(f) == IF f.live THEN f ELSE File(<<>>)

\* std::ios::trunc: the file is created, or emptied when it exists.
Truncate(f) == File(<<>>)

\* std::ofstream out(part_path, binary | trunc)
PartOpen(s) ==
    LET r == sess[s] IN
    /\ alive
    /\ r.pc = "part_open"
    /\ IF mpDirs[r.uid].live
       THEN /\ mpDirs' = [mpDirs EXCEPT ![r.uid].parts[r.pn] = Truncate(@)]
            /\ sess' = [sess EXCEPT ![s].pc = "part_write"]
       ELSE /\ sess' = [sess EXCEPT ![s] = Done(r, Resp(500, "IO_ERROR"))]
            /\ UNCHANGED mpDirs
    /\ UNCHANGED <<book, alive, now, buckets, objRows, objFiles, tempFiles, uploads, nextUpload,
                   partRows, sweep>>

\* A write at offset 0 of a file that already holds bytes replaces its head.
Overlay(old, bytes) == bytes \o SubSeq(old, Len(bytes) + 1, Len(old))

\* out.write, out.flush: the bytes reach the file the stream holds open; after
\* a remove_all of the directory that file is no longer the one at the path.
PartWrite(s) ==
    LET r == sess[s] IN
    /\ alive
    /\ r.pc \in {"part_write", "part_write_gone"}
    /\ mpDirs' = IF r.pc = "part_write"
                 THEN [mpDirs EXCEPT ![r.uid].parts[r.pn] = File(Overlay(@.bytes, r.body))]
                 ELSE mpDirs
    /\ sess' = [sess EXCEPT ![s].pc = "part_upsert", ![s].hasher = Sha256Update(Sha256, r.body),
                            ![s].total = Len(r.body)]
    /\ UNCHANGED <<book, alive, now, buckets, objRows, objFiles, tempFiles, uploads, nextUpload,
                   partRows, sweep>>

\* SqliteMetadataStore::UpsertMultipartPart
PartUpsert(s) ==
    LET r == sess[s] IN
    /\ alive
    /\ r.pc = "part_upsert"
    /\ IF uploads[r.uid].live
       THEN /\ partRows' = [partRows EXCEPT ![r.uid][r.pn] = Row(r.total, DigestToHex(r.hasher))]
            /\ sess' = [sess EXCEPT ![s].pc = "part_state"]
       ELSE /\ sess' = [sess EXCEPT ![s] = Done(r, Resp(500, "DB_ERROR"))]
            /\ UNCHANGED partRows
    /\ UNCHANGED <<book, alive, now, buckets, objRows, objFiles, tempFiles, uploads, nextUpload,
                   mpDirs, sweep>>

\* UpdateMultipartUploadState(upload_id, "uploading") and the response.
PartState(s) ==
    LET r == sess[s]
        etag == DigestToHex(r.hasher)
    IN
    /\ alive
    /\ r.pc = "part_state"
    /\ uploads' = UpdateMultipartUploadState(uploads, r.uid, "uploading")
    /\ sess' = [sess EXCEPT ![s] =
                  IF uploads[r.uid].live
                  THEN Done(r, [Resp(200, "") EXCEPT !.etag = etag, !.size = r.total])
                  ELSE Done(r, Resp(500, "DB_ERROR"))]
    /\ UNCHANGED <<book, alive, now, buckets, objRows, objFiles, tempFiles, nextUpload, partRows,
                   mpDirs, sweep>>

\* ----------------------------------------------------- multipart: complete
\* POST .../complete: ValidateUploadForBucket, state check, ParseCompleteParts,
\* ListMultipartParts.
CompleteUpload(s, b, u, parts) ==
    LET r == [Begin("complete", b, uploads[u].object) EXCEPT
                  !.uid = u, !.expected = parts, !.upl = uploads[u]]
        none == [r EXCEPT !.upl = NoUpload, !.object = "o1"]
        listed == partRows[u]
    IN
    /\ CanRead(s)
    /\ Arrive(s)
    /\ sess' = [sess EXCEPT ![s] =
                  IF ~ValidateUploadForBucket(b, u)
                  THEN Done(none, Resp(404, "UPLOAD_NOT_FOUND"))
                  ELSE IF uploads[u].state \in Terminal
                  THEN Done(r, Resp(409, "INVALID_STATE"))
                  ELSE IF ~ParseCompleteParts(parts)
                  THEN Done(r, Resp(400, "INVALID_JSON"))
                  ELSE IF \A n \in PartNumbers : ~listed[n].live
                  THEN Done(r, Resp(409, "INVALID_STATE"))
                  ELSE [r EXCEPT !.pc = "cmp_open", !.listed = listed]]
    /\ UNCHANGED <<alive, now, store, sweep>>

\* std::ofstream out(final_temp_path, binary | trunc) in the upload directory
CompleteOpen(s) ==
    LET r == sess[s] IN
    /\ alive
    /\ r.pc = "cmp_open"
    /\ IF mpDirs[r.uid].live
       THEN /\ mpDirs' = [mpDirs EXCEPT ![r.uid].tmp[s] = File(<<>>)]
            /\ sess' = [sess EXCEPT ![s].pc = "cmp_read", ![s].idx = 1, ![s].hasher = Sha256]
       ELSE /\ sess' = [sess EXCEPT ![s] = Done(r, Resp(500, "IO_ERROR"))]
            /\ UNCHANGED mpDirs
    /\ UNCHANGED <<book, alive, now, buckets, objRows, objFiles, tempFiles, uploads, nextUpload,
                   partRows, sweep>>

\* Faulty variant: the reassembly file is left where it is.
KeepTmp(dirs, u, s) == dirs

\* std::filesystem::remove(final_temp_path)
RemoveTmp(dirs, u, s) ==
    IF dirs[u].live THEN [dirs EXCEPT ![u].tmp[s] = NoFile] ELSE dirs

\* Faulty variant: the listed ETag is not compared with the stored one.
PartCheckNumberOnly(listed, e) ==
    IF ~listed[e[1]].live THEN "MISSING_PART" ELSE "ok"

\* The checks of one entry of expected_parts against the listing: the part
\* number is among the stored parts, and the ETags are equal.
PartCheck(listed, e) ==
    IF ~listed[e[1]].live THEN "MISSING_PART"
    ELSE IF listed[e[1]].etag # e[2] THEN "ETAG_MISMATCH"
    ELSE "ok"

\* One turn of the loop over expected_parts: look the part up in the listing,
\* compare the ETags, open the part file and append its bytes.  readable is
\* FALSE when the open fails although the file exists.
CompleteReadPart(s, readable) ==
    LET r == sess[s]
        e == r.expected[r.idx]
        n == e[1]
        d == mpDirs[r.uid]
        f == IF d.live THEN d.parts[n] ELSE NoFile
        fail(code, st) ==
            /\ mpDirs' = RemoveTmp(mpDirs, r.uid, s)
            /\ sess' = [sess EXCEPT ![s] = Done(r, Resp(st, code))]
    IN
    /\ alive
    /\ r.pc = "cmp_read"
    /\ IF PartCheck(r.listed, e) # "ok" THEN fail(PartCheck(r.listed, e), 409)
       ELSE IF ~f.live \/ ~readable THEN fail("IO_ERROR", 500)
       ELSE /\ mpDirs' = IF d.tmp[s].live
                         THEN [mpDirs EXCEPT ![r.uid].tmp[s].bytes = @ \o f.bytes]
                         ELSE mpDirs
            /\ sess' = [sess EXCEPT ![s].hasher = Sha256Update(@, f.bytes),
                                    ![s].total = @ + Len(f.bytes),
                                    ![s].idx = @ + 1,
                                    ![s].pc = IF r.idx = Len(r.expected)
                                              THEN "cmp_rename" ELSE "cmp_read"]
    /\ UNCHANGED <<book, alive, now, buckets, objRows, objFiles, tempFiles, uploads, nextUpload,
                   partRows, sweep>>

\* std::filesystem::rename(final_temp_path, final_path): throws when the temp
\* file is gone; nothing between the handler and io_context::run catches it.
CompleteRename(s) ==
    LET r == sess[s]
        d == mpDirs[r.uid]
    IN
    /\ alive
    /\ r.pc = "cmp_rename"
    /\ IF d.live /\ d.tmp[s].live
       THEN /\ objFiles' = [objFiles EXCEPT ![<<r.bucket, r.upl.object>>] = d.tmp[s]]
            /\ mpDirs' = [mpDirs EXCEPT ![r.uid].tmp[s] = NoFile]
            /\ sess' = [sess EXCEPT ![s].pc = "cmp_upsert"]
            /\ UNCHANGED alive
       ELSE /\ alive' = FALSE
            /\ UNCHANGED <<objFiles, mpDirs, sess>>
    /\ UNCHANGED <<book, now, buckets, objRows, tempFiles, uploads, nextUpload, partRows, sweep>>

\* metadata->UpsertObject(bucket, object_meta)
CompleteUpsert(s) ==
    LET r == sess[s] IN
    /\ alive
    /\ r.pc = "cmp_upsert"
    /\ IF GetBucket(r.bucket)
       THEN /\ objRows' = UpsertObject(objRows, r.bucket, r.upl.object, r.total,
                                       DigestToHex(r.hasher))
            /\ sess' = [sess EXCEPT ![s].pc = "cmp_state"]
       ELSE /\ sess' = [sess EXCEPT ![s] = Done(r, Resp(500, "DB_ERROR"))]
            /\ UNCHANGED objRows
    /\ UNCHANGED <<book, alive, now, buckets, objFiles, tempFiles, uploads, nextUpload, partRows,
                   mpDirs, sweep>>

\* (void)metadata->UpdateMultipartUploadState(upload_id, "completed")
CompleteState(s) ==
    LET r == sess[s] IN
    /\ alive
    /\ r.pc = "cmp_state"
    /\ uploads' = UpdateMultipartUploadState(uploads, r.uid, "completed")
    /\ sess' = [sess EXCEPT ![s].pc = "cmp_delparts"]
    /\ UNCHANGED <<book, alive, now, buckets, objRows, objFiles, tempFiles, nextUpload, partRows,
                   mpDirs, sweep>>

\* (void)metadata->DeleteMultipartParts(upload_id)
CompleteDeleteParts(s) ==
    LET r == sess[s] IN
    /\ alive
    /\ r.pc = "cmp_delparts"
    /\ partRows' = DeleteMultipartParts(partRows, r.uid)
    /\ sess' = [sess EXCEPT ![s].pc = "cmp_delupload"]
    /\ UNCHANGED <<book, alive, now, buckets, objRows, objFiles, tempFiles, uploads, nextUpload,
                   mpDirs, sweep>>

\* SqliteMetadataStore::DeleteMultipartUpload; the part rows go with the
\* upload row (ON DELETE CASCADE, foreign keys on).
DeleteMultipartUpload(s, from, to) ==
    LET r == sess[s] IN
    /\ alive
    /\ r.pc = from
    /\ uploads' = [uploads EXCEPT ![r.uid] = NoUpload]
    /\ partRows' = DeleteMultipartParts(partRows, r.uid)
    /\ sess' = [sess EXCEPT ![s].pc = to]
    /\ UNCHANGED <<book, alive, now, buckets, objRows, objFiles, tempFiles, nextUpload, mpDirs, sweep>>

\* (void)metadata->DeleteMultipartUpload(upload_id) of the complete handler
CompleteDeleteUpload(s) == DeleteMultipartUpload(s, "cmp_delupload", "cmp_rmdir")

\* remove_all(upload_dir) and the 200 response of the complete handler
CompleteRemoveDir(s) ==
    LET r == sess[s]
        etag == DigestToHex(r.hasher)
        resp == [Resp(200, "") EXCEPT !.etag = etag, !.size = r.total]
    IN
    /\ alive
    /\ r.pc = "cmp_rmdir"
    /\ mpDirs' = RemoveAll(mpDirs, r.uid)
    /\ sess' = [t \in Sessions |->
                  IF t = s THEN Done(r, resp) ELSE Unlinked(sess[t], r.uid)]
    /\ UNCHANGED <<book, alive, now, buckets, objRows, objFiles, tempFiles, uploads, nextUpload,
                   partRows, sweep>>

\* -------------------------------------------------------- multipart: abort
\* DELETE .../multipart-uploads/{upload_id}: validation and the state check.
AbortUpload(s, b, u) ==
    LET r == [Begin("abort", b, "o1") EXCEPT !.uid = u, !.upl = uploads[u]] IN
    /\ CanRead(s)
    /\ Arrive(s)
    /\ sess' = [sess EXCEPT ![s] =
                  IF ~ValidateUploadForBucket(b, u)
                  THEN Done([r EXCEPT !.upl = NoUpload], Resp(404, "UPLOAD_NOT_FOUND"))
                  ELSE IF uploads[u].state = "completed"
                  THEN Done(r, Resp(409, "INVALID_STATE"))
                  ELSE [r EXCEPT !.pc = "abt_state"]]
    /\ UNCHANGED <<alive, now, store, sweep>>

\* (void)metadata->UpdateMultipartUploadState(upload_id, "aborted")
AbortState(s) ==
    LET r == sess[s] IN
    /\ alive
    /\ r.pc = "abt_state"
    /\ uploads' = UpdateMultipartUploadState(uploads, r.uid, "aborted")
    /\ sess' = [sess EXCEPT ![s].pc = "abt_delparts"]
    /\ UNCHANGED <<book, alive, now, buckets, objRows, objFiles, tempFiles, nextUpload, partRows,
                   mpDirs, sweep>>

\* (void)metadata->DeleteMultipartParts(upload_id)
AbortDeleteParts(s) ==
    LET r == sess[s] IN
    /\ alive
    /\ r.pc = "abt_delparts"
    /\ partRows' = DeleteMultipartParts(partRows, r.uid)
    /\ sess' = [sess EXCEPT ![s].pc = "abt_delupload"]
    /\ UNCHANGED <<book, alive, now, buckets, objRows, objFiles, tempFiles, uploads, nextUpload,
                   mpDirs, sweep>>

\* (void)metadata->DeleteMultipartUpload(upload_id) of the abort handler
AbortDeleteUpload(s) == DeleteMultipartUpload(s, "abt_delupload", "abt_rmdir")

\* remove_all(MultipartUploadDir(...)) and the 204 response
AbortRemoveDir(s) ==
    LET r == sess[s] IN
    /\ alive
    /\ r.pc = "abt_rmdir"
    /\ mpDirs' = RemoveAll(mpDirs, r.uid)
    /\ sess' = [t \in Sessions |->
                  IF t = s THEN Done(r, Resp(204, "")) ELSE Unlinked(sess[t], r.uid)]
    /\ UNCHANGED <<book, alive, now, buckets, objRows, objFiles, tempFiles, uploads, nextUpload,
                   partRows, sweep>>

\* ---------------------------------------------------------- expiry sweeper
\* SqliteMetadataStore::ListExpiredMultipartUploads: state initiated or
\* uploading, expires_at < cutoff, ORDER BY expires_at ASC LIMIT limit.
\* Faulty variant: uploads that already hold parts are never listed.
IsExpiredInitiated(u, cutoff) ==
    /\ uploads[u].live
    /\ uploads[u].state = "initiated"
    /\ uploads[u].expires_at < cutoff

IsExpired(u, cutoff) ==
    /\ uploads[u].live
    /\ uploads[u].state \in {"initiated", "uploading"}
    /\ uploads[u].expires_at < cutoff

RECURSIVE OrderByExpiry(_)
OrderByExpiry(S) ==
    IF S = {} THEN <<>>
    ELSE LET u == CHOOSE x \in S : \A y \in S :
                     \/ uploads[x].expires_at < uploads[y].expires_at
                     \/ uploads[x].expires_at = uploads[y].expires_at /\ x <= y
         IN <<u>> \o OrderByExpiry(S \ {u})

ListExpiredMultipartUploads(cutoff, limit) ==
    LET all == OrderByExpiry({u \in DOMAIN uploads : IsExpired(u, cutoff)})
    IN SubSeq(all, 1, Min(limit, Len(all)))

\* HttpServer::RunCleanupSweep: the listing, when the timer fires.
RunCleanupSweep ==
    LET expired == ListExpiredMultipartUploads(now - grace_period_seconds,
                                               max_uploads_per_sweep)
    IN
    /\ alive
    /\ sweep.pc = "idle"
    /\ expired # <<>>
    /\ sweep' = [pc |-> "state", queue |-> expired]
    /\ UNCHANGED <<book, alive, now, store, sess>>

\* One statement of the loop body for the upload at the head of the list.
SweepState ==
    /\ alive
    /\ sweep.pc = "state"
    /\ uploads' = UpdateMultipartUploadState(uploads, Head(sweep.queue), "expired")
    /\ sweep' = [sweep EXCEPT !.pc = "delparts"]
    /\ UNCHANGED <<book, alive, now, buckets, objRows, objFiles, tempFiles, nextUpload, partRows,
                   mpDirs, sess>>

SweepDeleteParts ==
    /\ alive
    /\ sweep.pc = "delparts"
    /\ partRows' = DeleteMultipartParts(partRows, Head(sweep.queue))
    /\ sweep' = [sweep EXCEPT !.pc = "delupload"]
    /\ UNCHANGED <<book, alive, now, buckets, objRows, objFiles, tempFiles, uploads, nextUpload,
                   mpDirs, sess>>

SweepDeleteUpload ==
    /\ alive
    /\ sweep.pc = "delupload"
    /\ uploads' = [uploads EXCEPT ![Head(sweep.queue)] = NoUpload]
    /\ partRows' = DeleteMultipartParts(partRows, Head(sweep.queue))
    /\ sweep' = [sweep EXCEPT !.pc = "rmdir"]
    /\ UNCHANGED <<book, alive, now, buckets, objRows, objFiles, tempFiles, nextUpload, mpDirs, sess>>

\* remove_all of the upload's directory; the sweep returns after the last
\* upload and the timer is armed again.
SweepRemoveDir ==
    LET u == Head(sweep.queue)
        rest == Tail(sweep.queue)
    IN
    /\ alive
    /\ sweep.pc = "rmdir"
    /\ mpDirs' = RemoveAll(mpDirs, u)
    /\ sess' = [t \in Sessions |-> Unlinked(sess[t], u)]
    /\ sweep' = [pc |-> IF rest = <<>> THEN "idle" ELSE "state", queue |-> rest]
    /\ UNCHANGED <<book, alive, now, buckets, objRows, objFiles, tempFiles, uploads, nextUpload,
                   partRows>>

\* A statement of the loop body fails in the database (busy, locked, I/O):
\* Poco throws, UpdateMultipartUploadState, DeleteMultipartParts and
\* DeleteMultipartUpload have no try block, nor have RunCleanupSweep, the
\* timer's handler and the thread's ioc.run(): the process terminates.
SweepStatementThrows ==
    /\ alive
    /\ sweep.pc \in {"state", "delparts", "delupload"}
    /\ alive' = FALSE
    /\ UNCHANGED <<book, now, store, sess, sweep>>

\* remove_all(path, ec) fails: the error code is dropped, the directory stays
\* and the loop goes on.
SweepRemoveDirFails ==
    LET rest == Tail(sweep.queue) IN
    /\ alive
    /\ sweep.pc = "rmdir"
    /\ sweep' = [pc |-> IF rest = <<>> THEN "idle" ELSE "state", queue |-> rest]
    /\ UNCHANGED <<book, alive, now, store, sess>>

\* ------------------------------------------------------- failing writes
\* Session::OnUploadChunk when ::write returns an error: FailUpload closes
\* the descriptor, removes the temp file and sends 500 IO_ERROR.
OnUploadChunkWriteFails(s) ==
    LET r == sess[s] IN
    /\ alive
    /\ r.pc = "upload"
    /\ NextChunk(r) # <<>>
    /\ tempFiles' = [tempFiles EXCEPT ![s] = NoFile]
    /\ sess' = [sess EXCEPT ![s] = Done(r, Resp(500, "IO_ERROR"))]
    /\ UNCHANGED <<book, alive, now, buckets, objRows, objFiles, uploads, nextUpload,
                   partRows, mpDirs, sweep>>

\* LocalStorage::WriteObject called by s (a caller inside the process, not a
\* connection) up to the opening of the temp file.
WriteObject(s, b, o, body) ==
    LET r == [Begin("write_object", b, o) EXCEPT !.body = body] IN
    /\ alive
    /\ sess[s].pc = "idle" /\ left[s] = 0
    /\ IF ~IsSafeName(NameChars[b]) \/ ~IsSafeName(NameChars[o])
       THEN /\ sess' = [sess EXCEPT ![s] = Done(r, Resp(400, "INVALID_ARGUMENT"))]
            /\ UNCHANGED tempFiles
       ELSE \E opened \in BOOLEAN :
               IF opened
               THEN /\ tempFiles' = [tempFiles EXCEPT ![s] = File(<<>>)]
                    /\ sess' = [sess EXCEPT ![s] = [r EXCEPT !.pc = "wo_write", !.hasher = Sha256]]
               ELSE /\ sess' = [sess EXCEPT ![s] = Done(r, Resp(500, "IO_ERROR"))]
                    /\ UNCHANGED tempFiles
    /\ UNCHANGED <<book, alive, now, buckets, objRows, objFiles, uploads, nextUpload,
                   partRows, mpDirs, sweep>>

\* WriteObject's loop: one buffer is written to the temp file; when the data
\* is exhausted the file is closed and renamed to the canonical path.
WriteObjectChunk(s) ==
    LET r == sess[s]
        chunk == NextChunk(r)
        written == [tempFiles[s] EXCEPT !.bytes = @ \o chunk]
        r2 == [r EXCEPT !.off = @ + Len(chunk), !.hasher = Sha256Update(@, chunk),
                        !.total = @ + Len(chunk)]
    IN
    /\ alive
    /\ r.pc = "wo_write"
    /\ IF IsDone(r)
       THEN /\ objFiles' = [objFiles EXCEPT ![Key(r)] = written]
            /\ tempFiles' = [tempFiles EXCEPT ![s] = NoFile]
            /\ sess' = [sess EXCEPT ![s] =
                          Done(r2, [Resp(200, "") EXCEPT !.etag = DigestToHex(r2.hasher),
                                                         !.size = r2.total])]
       ELSE /\ tempFiles' = [tempFiles EXCEPT ![s] = written]
            /\ sess' = [sess EXCEPT ![s] = r2]
            /\ UNCHANGED objFiles
    /\ UNCHANGED <<book, alive, now, buckets, objRows, uploads, nextUpload, partRows,
                   mpDirs, sweep>>

\* WriteObject when ::write returns an error: ::close(fd) and the Error
\* kIoError "failed to write temp file".
WriteObjectWriteFails(s) ==
    LET r == sess[s] IN
    /\ alive
    /\ r.pc = "wo_write"
    /\ NextChunk(r) # <<>>
    /\ sess' = [sess EXCEPT ![s] = Done(r, Resp(500, "IO_ERROR"))]
    /\ UNCHANGED <<book, alive, now, store, sweep>>

\* ---------------------------------------------------- session, byte level
rest == <<now, store, sess, sweep, left, track, auth, call, timer, jwks, pre, prev>>

\* The client writes a request: its header and Content-Length units of body.
ClientSend ==
    /\ alive
    /\ conn.pc # "closed" /\ ~conn.eof
    /\ conn.sent < MaxRequests
    /\ \E h \in RequestHeaders, body \in SeqsUpTo(BodyTexts, MaxContent) :
        /\ Len(body) = h.len
        /\ conn' = [conn EXCEPT
                      !.sent = @ + 1,
                      !.wire = @ \o <<WireUnit("header", conn.sent + 1, h)>>
                                 \o [i \in 1..Len(body) |->
                                        WireUnit("body", conn.sent + 1, body[i])]]
    /\ UNCHANGED <<alive, rest>>

\* The client shuts its side of the connection down.
ClientClose ==
    /\ alive
    /\ conn.pc # "closed" /\ ~conn.eof
    /\ conn' = [conn EXCEPT !.eof = TRUE]
    /\ UNCHANGED <<alive, rest>>

\* Faulty variant: the claims of the previous request stay.
KeepClaims(claims) == claims

\* auth_claims_.reset()
ResetClaims(claims) == NoClaims

\* Faulty variant: the connection is kept whatever the response says.
NeverNeedEof(version) == FALSE

\* http::message::need_eof of a response with a Content-Length and no
\* Connection field: HTTP/1.0 is not keep-alive, HTTP/1.1 is.
need_eof(version) == version < 11

\* EnsureAuthorized's effect on auth_claims_: result.value() when the token
\* was verified.
ClaimsAfter(claims, h) ==
    IF auth.enabled /\ ~IsPublicPath(TargetPath(h.kind))
       /\ EnsureAuthorized(TargetPath(h.kind), h.tok) = "pass"
    THEN [has |-> TRUE, subject |-> h.sub]
    ELSE claims

\* StartUpload and the POST branch of OnReadHeader: the response that is sent
\* before any of the body is read, NoResp when the upload starts streaming.
EarlyAnswer(kind, opened) ==
    IF kind = "post_noname" THEN Resp(400, "MISSING_NAME")
    ELSE IF kind = "put_unsafe" THEN Resp(400, "INVALID_NAME")
    ELSE IF kind = "put_nobucket" THEN Resp(404, "BUCKET_NOT_FOUND")
    ELSE IF ~opened THEN Resp(500, "IO_ERROR")
    ELSE NoResp

\* Session::HandleRequest: the context is built from auth_claims_, then
\* EnsureAuthorized runs again, then the router; ends in Send.
SessionHandleRequest(c) ==
    LET h == c.cur.hdr
        result == EnsureAuthorized(TargetPath(h.kind), h.tok)
    IN [c EXCEPT !.pc = IF result = "throws" THEN "closed" ELSE "write",
                 !.ctx = c.claims,
                 !.claims = ClaimsAfter(c.claims, h),
                 !.resp = IF result = "pass" THEN Resp(200, "")
                          ELSE Resp(401, "UNAUTHORIZED")]

\* Session::OnReadHeader: the parser is given what is next on the
\* connection; a parse error ends the session; otherwise auth_claims_ is
\* reset, EnsureAuthorized runs, and the request is answered, streamed to a
\* temp file, handled (no body) or its body read.
SessionOnReadHeader ==
    LET unit == Head(conn.wire)
        h == unit.hdr
        result == EnsureAuthorized(TargetPath(h.kind), h.tok)
        c == [conn EXCEPT !.wire = Tail(@), !.parsed = @ + 1, !.cur = unit,
                          !.ctx = NoClaims,
                          !.claims = ClaimsAfter(ResetClaims(conn.claims), h)]
    IN
    /\ alive
    /\ conn.pc = "read_header"
    /\ conn.wire # <<>>
    /\ IF h = NoHdr
       THEN /\ conn' = [conn EXCEPT !.pc = "closed"]
            /\ UNCHANGED alive
       ELSE IF result = "throws"
       THEN /\ conn' = [c EXCEPT !.pc = "closed"]
            /\ alive' = FALSE
       ELSE IF result = "unauthorized"
       THEN /\ conn' = [c EXCEPT !.pc = "write", !.resp = Resp(401, "UNAUTHORIZED")]
            /\ UNCHANGED alive
       ELSE IF h.kind \in UploadKinds
       THEN /\ \E opened \in BOOLEAN :
                 conn' = IF EarlyAnswer(h.kind, opened) = NoResp
                         THEN [c EXCEPT !.pc = "upload"]
                         ELSE [c EXCEPT !.pc = "write", !.resp = EarlyAnswer(h.kind, opened)]
            /\ UNCHANGED alive
       ELSE IF h.len = 0
       THEN /\ conn' = SessionHandleRequest(c)
            /\ alive' = (SessionHandleRequest(c).pc # "closed")
       ELSE /\ conn' = [c EXCEPT !.pc = "read_body"]
            /\ UNCHANGED alive
    /\ UNCHANGED rest

\* OnReadHeader with end_of_stream: DoClose.
SessionEndOfStream ==
    /\ alive
    /\ conn.pc = "read_header"
    /\ conn.wire = <<>> /\ conn.eof
    /\ conn' = [conn EXCEPT !.pc = "closed"]
    /\ UNCHANGED <<alive, rest>>

\* OnBodyChunk / OnUploadChunk until the parser is done: Content-Length units
\* are taken as the body, then HandleRequest or FinishUpload (200, or 500
\* when storing fails) ends in Send; a connection that ends first ends the
\* session.
SessionOnBody ==
    LET n == conn.cur.hdr.len
        c == [conn EXCEPT !.wire = SubSeq(@, n + 1, Len(@))]
    IN
    /\ alive
    /\ conn.pc \in {"read_body", "upload"}
    /\ IF Len(conn.wire) < n
       THEN /\ conn.eof
            /\ conn' = [conn EXCEPT !.pc = "closed"]
            /\ UNCHANGED alive
       ELSE IF conn.pc = "upload"
       THEN /\ \E st \in {200, 500} :
                 conn' = [c EXCEPT !.pc = "write",
                                   !.resp = Resp(st, IF st = 200 THEN "" ELSE "IO_ERROR")]
            /\ UNCHANGED alive
       ELSE /\ conn' = SessionHandleRequest(c)
            /\ alive' = (SessionHandleRequest(c).pc # "closed")
    /\ UNCHANGED rest

\* Session::OnWrite: after a write that failed the session ends; after a
\* response that needs EOF DoClose; otherwise DoReadHeader.
SessionOnWrite ==
    /\ alive
    /\ conn.pc = "write"
    /\ \E ok \in BOOLEAN :
        conn' = IF ~ok THEN [conn EXCEPT !.pc = "closed"]
                ELSE [conn EXCEPT
                        !.out = Append(@, [req |-> conn.parsed, status |-> conn.resp.status,
                                           version |-> conn.cur.hdr.version]),
                        !.pc = IF need_eof(conn.cur.hdr.version) THEN "closed"
                               ELSE "read_header"]
    /\ UNCHANGED <<alive, rest>>

\* ---------------------------------------------------------- JWKS cache
\* Faulty variant: GetKey takes no lock.
NeverLocked(holder) == FALSE

\* std::lock_guard<std::mutex> lock(mutex_) has to wait.
Locked(holder) == holder # "none"

\* JwksCache::FetchJwksBody: every failure is an Error.
FetchJwksBody(doc) == [ok |-> doc.kind # "unreachable", body |-> doc]

\* JwksCache::LoadFromBody: the map built from the body (next), an Error when
\* the body does not parse or next is empty.
LoadFromBody(body) ==
    IF body.kind # "jwks" \/ body.kids = {} THEN [ok |-> FALSE, next |-> {}]
    ELSE [ok |-> TRUE, next |-> body.kids]

\* Faulty variant: a kid that is absent is refused at once.
FailOnMiss(pass) == "fail"

\* GetKey after keys_.find(kid) found nothing: Refresh() once, then the error.
AfterMiss(pass) == IF pass = 1 THEN "refresh" ELSE "fail"

\* JwksCache::GetKey(kid) on thread t: the lock, and the test of the cache.
GetKey(t, kid) ==
    LET stale == jwks.keys = {} \/ now >= jwks.expires_at IN
    /\ alive
    /\ jwks.th[t].pc \in {"idle", "done"}
    /\ ~Locked(jwks.holder)
    /\ jwks' = [jwks EXCEPT !.holder = t,
                            !.th[t] = [NoCaller EXCEPT !.pc = IF stale THEN "refresh" ELSE "find",
                                                       !.kid = kid, !.pass = IF stale THEN 0 ELSE 1,
                                                       !.stale = stale,
                                                       !.cached = kid \in jwks.keys]]
    /\ UNCHANGED <<alive, now, store, sess, sweep, left, track, auth, call, timer, conn, pre, prev>>

\* JwksCache::Refresh up to keys_ = std::move(next); GetKey returns the error
\* of a refresh that fails.
JwksRefresh(t) ==
    LET c == jwks.th[t]
        fetch == FetchJwksBody(jwks.doc)
        load == LoadFromBody(fetch.body)
    IN
    /\ alive
    /\ c.pc = "refresh"
    /\ jwks' = IF fetch.ok /\ load.ok
               THEN [jwks EXCEPT !.keys = load.next,
                                 !.th[t] = [c EXCEPT !.pc = "expiry", !.refreshes = @ + 1,
                                                     !.fetched = jwks.doc]]
               ELSE [jwks EXCEPT !.holder = IF @ = t THEN "none" ELSE @,
                                 !.th[t] = [c EXCEPT !.pc = "done", !.refreshes = @ + 1,
                                                     !.fetched = jwks.doc,
                                                     !.ret = "UNAUTHORIZED"]]
    /\ UNCHANGED <<alive, now, store, sess, sweep, left, track, auth, call, timer, conn, pre, prev>>

\* expires_at_ = system_clock::now() + ttl_, and Refresh returns.
JwksExpiry(t) ==
    LET c == jwks.th[t] IN
    /\ alive
    /\ c.pc = "expiry"
    /\ jwks' = [jwks EXCEPT !.expires_at = now + cache_ttl_seconds,
                            !.th[t] = [c EXCEPT !.pc = "find", !.pass = @ + 1]]
    /\ UNCHANGED <<alive, now, store, sess, sweep, left, track, auth, call, timer, conn, pre, prev>>

\* keys_.find(kid): the key, one more Refresh, or "kid not found in jwks".
JwksFind(t) ==
    LET c == jwks.th[t] IN
    /\ alive
    /\ c.pc = "find"
    /\ jwks' = IF c.kid \in jwks.keys
               THEN [jwks EXCEPT !.holder = IF @ = t THEN "none" ELSE @,
                                 !.th[t] = [c EXCEPT !.pc = "done", !.ret = "key"]]
               ELSE IF AfterMiss(c.pass) = "refresh"
               THEN [jwks EXCEPT !.th[t] = [c EXCEPT !.pc = "refresh", !.misses = @ + 1]]
               ELSE [jwks EXCEPT !.holder = IF @ = t THEN "none" ELSE @,
                                 !.th[t] = [c EXCEPT !.pc = "done", !.misses = @ + 1,
                                                     !.ret = "UNAUTHORIZED"]]
    /\ UNCHANGED <<alive, now, store, sess, sweep, left, track, auth, call, timer, conn, pre, prev>>

\* The provider changes what jwks_url serves (key rotation, an outage).
JwksRotate ==
    /\ alive
    /\ \E doc \in Docs \ {jwks.doc} : jwks' = [jwks EXCEPT !.doc = doc]
    /\ UNCHANGED <<alive, now, store, sess, sweep, left, track, auth, call, timer, conn, pre, prev>>

\* ------------------------------------------------------- cleanup timer
\* The steady clock of cleanup_timer_ advances.
SteadyTick ==
    /\ alive
    /\ timer.clock < MaxSteady
    /\ timer' = [timer EXCEPT !.clock = @ + 1]
    /\ UNCHANGED <<alive, now, store, sess, sweep, left, track, auth, call, jwks, conn, pre, prev>>

\* Faulty variant: the handler arms the timer again before it runs the sweep.
OnCleanupTimerRearmed(t) ==
    /\ alive
    /\ timer.waits > 0
    /\ timer.clock >= timer.deadline
    /\ timer.pc[t] = "free"
    /\ timer' = [timer EXCEPT !.waits = 1, !.deadline = timer.clock + sweep_interval_seconds,
                              !.pc[t] = "sweep", !.expiries = @ + 1, !.sweeps = @ + 1]
    /\ UNCHANGED <<alive, now, store, sess, sweep, left, track, auth, call, jwks, conn, pre, prev>>

\* The timer expires and a free thread runs the handler of async_wait, with
\* no error code: it enters RunCleanupSweep.
OnCleanupTimer(t) ==
    /\ alive
    /\ timer.waits > 0
    /\ timer.clock >= timer.deadline
    /\ timer.pc[t] = "free"
    /\ timer' = [timer EXCEPT !.waits = @ - 1, !.pc[t] = "sweep",
                              !.expiries = @ + 1, !.sweeps = @ + 1]
    /\ UNCHANGED <<alive, now, store, sess, sweep, left, track, auth, call, jwks, conn, pre, prev>>

\* RunCleanupSweep returns to the handler.
CleanupSweepReturns(t) ==
    /\ alive
    /\ timer.pc[t] = "sweep"
    /\ timer' = [timer EXCEPT !.pc[t] = "schedule"]
    /\ UNCHANGED <<alive, now, store, sess, sweep, left, track, auth, call, jwks, conn, pre, prev>>

\* HttpServer::ScheduleCleanupSweep, the handler's last call: expires_after
\* (which cancels the waits that are pending) and async_wait.
ScheduleCleanupSweep(t) ==
    /\ alive
    /\ timer.pc[t] = "schedule"
    /\ timer' = [timer EXCEPT !.waits = 1, !.deadline = timer.clock + sweep_interval_seconds,
                              !.pc[t] = "free"]
    /\ UNCHANGED <<alive, now, store, sess, sweep, left, track, auth, call, jwks, conn, pre, prev>>

\* The wall clock advances.
Tick ==
    /\ alive
    /\ now < MaxTime
    /\ now' = now + 1
    /\ UNCHANGED <<book, alive, store, sess, sweep>>


\* ----------------------------------------------------------- the system
\* Requests a connection can send, by handler; the arguments bound the inputs.
ObjectRequest(s, Bs, Bods) ==
    \/ \E b \in Bs, o \in ObjectNames, body \in Bods : StartUpload(s, b, o, body)
    \/ \E b \in Bs, o \in ObjectNames : HandleDownload(s, b, o, NoRange)
    \/ \E b \in Bs, o \in ObjectNames : DeleteObject(s, b, o)

ObjectStep(s) ==
    \/ OnUploadChunk(s)
    \/ FinishUpload(s)
    \/ DownloadOpen(s)
    \/ DeleteObjectRow(s)

PartRequest(s, Bs, PBods) ==
    \E b \in Bs, u \in UploadIds, n \in PartNumbers, body \in PBods : UploadPart(s, b, u, n, body)

PartStep(s) ==
    \/ PartMkdir(s)
    \/ PartOpen(s)
    \/ PartWrite(s)
    \/ PartUpsert(s)
    \/ PartState(s)

CompleteRequest(s, Bs, Lists) ==
    \E b \in Bs, u \in UploadIds, parts \in Lists : CompleteUpload(s, b, u, parts)

CompleteStep(s, Oks) ==
    \/ CompleteOpen(s)
    \/ \E ok \in Oks : CompleteReadPart(s, ok)
    \/ CompleteRename(s)
    \/ CompleteUpsert(s)
    \/ CompleteState(s)
    \/ CompleteDeleteParts(s)
    \/ CompleteDeleteUpload(s)
    \/ CompleteRemoveDir(s)

AbortRequest(s, Bs) ==
    \E b \in Bs, u \in UploadIds : AbortUpload(s, b, u)

AbortStep(s) ==
    \/ AbortState(s)
    \/ AbortDeleteParts(s)
    \/ AbortDeleteUpload(s)
    \/ AbortRemoveDir(s)

Sweeper ==
    \/ RunCleanupSweep
    \/ SweepState
    \/ SweepDeleteParts
    \/ SweepDeleteUpload
    \/ SweepRemoveDir

\* One connection, requests one after the other, any request and any input;
\* a part file may turn out unreadable when complete opens it.
NextSeq ==
    \E s \in {"s1"} :
        \/ ObjectRequest(s, BucketNames, Bodies)
        \/ ObjectStep(s)
        \/ \E b \in BucketNames, o \in ObjectNames : InitiateUpload(s, b, o)
        \/ PartRequest(s, BucketNames, PartBodies)
        \/ PartStep(s)
        \/ CompleteRequest(s, BucketNames, PartLists)
        \/ CompleteStep(s, BOOLEAN)
        \/ AbortRequest(s, BucketNames)
        \/ AbortStep(s)

SpecSeq == InitSeq /\ [][NextSeq]_vars

\* Part files an upload can hold: each part number absent or uploaded once.
PartFiles == [PartNumbers -> {NoFile} \cup {File(b) : b \in PartBodies}]
OneEach == [s \in Sessions |-> 1]

\* The publish path under concurrency: two connections, one request each, on
\* b1/o1 (PUT, GET, DELETE) and on its upload 1 (complete), from any store in
\* which the object is absent or stored and the upload holds any parts.
Init ==
    \E obj \in {NoFile} \cup {File(b) : b \in Bodies}, pf \in PartFiles :
        InitWith(obj, TRUE, pf, max_upload_ttl_seconds, OneEach, FALSE)

Next ==
    \E s \in Sessions :
        \/ ObjectRequest(s, {"b1"}, Bodies)
        \/ ObjectStep(s)
        \/ CompleteRequest(s, {"b1"}, PartLists)
        \/ CompleteStep(s, {TRUE})

Spec == Init /\ [][Next]_vars

\* The multipart path under concurrency: two connections, one request each,
\* on upload 1 of b1/o1 (part upload, complete, abort), the cleanup task and
\* the clock, from any store in which the upload holds any parts and reaches
\* its expiry time (expires_at = now).
InitUploads ==
    \E pf \in PartFiles : InitWith(NoFile, TRUE, pf, 0, OneEach, FALSE)

NextUploads ==
    \/ \E s \in Sessions :
          \/ PartRequest(s, {"b1"}, PartBodies)
          \/ PartStep(s)
          \/ CompleteRequest(s, {"b1"}, PartLists)
          \/ CompleteStep(s, {TRUE})
          \/ AbortRequest(s, {"b1"})
          \/ AbortStep(s)
    \/ Sweeper
    \/ Tick

SpecUploads == InitUploads /\ [][NextUploads]_vars

\* Part bodies of different lengths, the empty one included.
LongPartBodies == SeqsUpTo(Byte, MaxPartLen + 1)

\* Part uploads one after the other on one connection, to upload 1 of b1/o1
\* that was just initiated, with bodies of different lengths.
InitParts ==
    InitWith(NoFile, TRUE, NoParts, max_upload_ttl_seconds,
             [s \in Sessions |-> IF s = "s1" THEN -1 ELSE 0], TRUE)

NextParts ==
    \E s \in {"s1"} :
        \/ PartRequest(s, {"b1"}, LongPartBodies)
        \/ PartStep(s)

SpecParts == InitParts /\ [][NextParts]_vars

\* One upload more than a sweep takes.
SweptIds == 1..(max_uploads_per_sweep + 1)

\* The cleanup task with more open uploads than one sweep takes, each holding
\* any parts and expiring now or later, while one connection uploads a part
\* to upload 1.
InitSweep ==
    \E pf \in [SweptIds -> PartFiles], exp \in [SweptIds -> 0..MaxTime] :
        /\ alive = TRUE
        /\ now = 0
        /\ buckets = {BucketRow(1, "b1", 0)}
        /\ objFiles = [k \in ObjKeys |-> NoFile]
        /\ objRows = [k \in ObjKeys |-> NoRow]
        /\ tempFiles = [s \in Sessions |-> NoFile]
        /\ uploads = [u \in SweptIds |->
                        [live |-> TRUE, bucket |-> "b1", object |-> "o1",
                         state |-> IF \E n \in PartNumbers : pf[u][n].live
                                   THEN "uploading" ELSE "initiated",
                         expires_at |-> exp[u]]]
        /\ nextUpload = max_uploads_per_sweep + 1
        /\ partRows = [u \in SweptIds |-> [n \in PartNumbers |->
                         IF pf[u][n].live
                         THEN Row(Len(pf[u][n].bytes), EtagOf(pf[u][n].bytes)) ELSE NoRow]]
        /\ mpDirs = [u \in SweptIds |->
                       IF \E n \in PartNumbers : pf[u][n].live
                       THEN [live |-> TRUE, parts |-> pf[u], tmp |-> NoTmp] ELSE NoDir]
        /\ sess = [s \in Sessions |-> IdleSession]
        /\ sweep = [pc |-> "idle", queue |-> <<>>]
        /\ left = [s \in Sessions |-> IF s = "s1" THEN 1 ELSE 0]
        /\ track = FALSE
        /\ auth = [enabled |-> FALSE, token |-> [s \in Sessions |-> NoToken]]
        /\ call = NoCall
        /\ timer = NoTimer
        /\ jwks = NoJwks
        /\ conn = NoConn
        /\ pre = Snapshot
        /\ prev = NoPrev

NextSweep ==
    \/ \E s \in {"s1"} :
          \/ PartRequest(s, {"b1"}, PartBodies)
          \/ PartStep(s)
    \/ Sweeper
    \/ Tick

\* cleanup.enabled: the steady timer is armed again after every sweep
\* (ScheduleCleanupSweep) and the io_context runs its handler, so a sweep
\* that can start or continue does.
SpecSweep == InitSweep /\ [][NextSweep]_vars /\ WF_vars(Sweeper)

\* Routes under /v1 and the routes that take no bucket.
RouteKinds == {"put", "get", "delete", "initiate", "part", "complete", "abort"}
StatusPaths == {"/healthz", "/readyz", "/metrics"}

\* auth.enabled = true: one connection sends one request with any
\* Authorization header or none, to a store in which b1/o1 is absent or
\* stored.
InitAuth ==
    \E obj \in {NoFile, File(<<1>>)} :
        /\ InitConf(obj, TRUE, NoParts, max_upload_ttl_seconds,
                    [s \in Sessions |-> IF s = "s1" THEN 1 ELSE 0], TRUE, TRUE)
        /\ call = NoCall
        /\ timer = NoTimer
        /\ jwks = NoJwks
        /\ conn = NoConn

NextAuth ==
    \E s \in {"s1"} :
        \/ ObjectRequest(s, {"b1"}, Bodies)
        \/ ObjectStep(s)
        \/ \E kind \in RouteKinds, tok \in Presented(s) : Unauthorized(s, kind, tok)
        \/ \E path \in StatusPaths, tok \in Presented(s) : HandleStatus(s, path, tok)

SpecAuth == InitAuth /\ [][NextAuth]_vars

RangeRequest(s, Bs, Headers) ==
    \E b \in Bs, o \in ObjectNames, header \in Headers : HandleDownload(s, b, o, header)

\* One connection sends one GET of b1/o1 with any Range header, to a store in
\* which the object is absent or stored with any content.
InitRange ==
    \E obj \in {NoFile} \cup {File(b) : b \in SeqsUpTo(Byte, MaxBody + 1)} :
        InitWith(obj, FALSE, NoParts, 0, [s \in Sessions |-> IF s = "s1" THEN 1 ELSE 0], FALSE)

NextRange ==
    \E s \in {"s1"} :
        \/ RangeRequest(s, {"b1"}, RangeHeaders)
        \/ DownloadOpen(s)

SpecRange == InitRange /\ [][NextRange]_vars

\* One connection sends one PUT of b1/o1 with a body up to one byte above
\* max_body_bytes, and may close while the body is streamed; the object is
\* absent or stored.
InitStream ==
    \E obj \in {NoFile} \cup {File(b) : b \in Bodies} :
        InitWith(obj, FALSE, NoParts, 0, [s \in Sessions |-> IF s = "s1" THEN 1 ELSE 0], FALSE)

NextStream ==
    \E s \in {"s1"} :
        \/ \E body \in SeqsUpTo(Byte, max_body_bytes + 1) :
              \/ StartUpload(s, "b1", "o1", body)
              \/ OnReadHeaderFailed(s, "b1", "o1", body)
        \/ OnUploadChunk(s)
        \/ OnUploadChunkFailed(s)
        \/ FinishUpload(s)

SpecStream == InitStream /\ [][NextStream]_vars

\* One connection sends one request on an object or on upload 1, with any
\* bucket or object name, safe or not.
NamedRequest(s, Bs, Os) ==
    \/ \E b \in Bs, o \in Os, body \in {<<>>, <<1>>} : StartUpload(s, b, o, body)
    \/ \E b \in Bs, o \in Os : HandleDownload(s, b, o, NoRange)
    \/ \E b \in Bs, o \in Os : DeleteObject(s, b, o)
    \/ \E b \in Bs : AbortUpload(s, b, 1)

InitNames ==
    \E obj \in {NoFile} \cup {File(b) : b \in Bodies}, pf \in PartFiles :
        InitWith(obj, TRUE, pf, max_upload_ttl_seconds,
                 [s \in Sessions |-> IF s = "s1" THEN 1 ELSE 0], FALSE)

NextNames ==
    \E s \in {"s1"} :
        \/ NamedRequest(s, BucketNames \cup UnsafeNames, ObjectNames \cup UnsafeNames)
        \/ ObjectStep(s)
        \/ AbortStep(s)

SpecNames == InitNames /\ [][NextNames]_vars

\* IsSafeName on every name over a few characters, up to one character longer
\* than the longest name it accepts.
NameAlphabet == {"a", "Z", "1", "-", "_", ".", "/", "NUL"}

InitSafeName ==
    \E name \in SeqsUpTo(NameAlphabet, max_name_size + 1) : InitCall("IsSafeName", name)

NextSafeName == CallIsSafeName

SpecSafeName == InitSafeName /\ [][NextSafeName]_vars

\* Router::Route on every target over a few characters, for three methods.
InitRouter ==
    \E method \in {"GET", "PUT", "POST"}, target \in SeqsUpTo({"/", "a", "b", "?"}, MaxTarget) :
        InitCall("Route", [method |-> method, target |-> target])

NextRouter == CallRoute

SpecRouter == InitRouter /\ [][NextRouter]_vars

\* Two connections each create one bucket, of any name, or list the objects
\* of one, while the clock runs.
ListPrefixes == {<<>>, <<"o">>, <<"1">>}

InitBuckets ==
    \E obj \in {NoFile, File(<<1>>)} :
        InitWith(obj, FALSE, NoParts, 0, [s \in Sessions |-> 1], FALSE)

NextBuckets ==
    \/ \E s \in Sessions, name \in BucketNames \cup UnsafeNames : CreateBucket(s, name)
    \/ \E s \in Sessions : CreateBucketGet(s)
    \/ \E s \in Sessions, b \in BucketNames, prefix \in ListPrefixes : ListBucketObjects(s, b, prefix)
    \/ Tick

SpecBuckets == InitBuckets /\ [][NextBuckets]_vars

\* One connection, requests one after the other: PUT, GET, DELETE of an
\* object and listings, on a store that holds the object or not.
InitDelete ==
    \E obj \in {NoFile} \cup {File(b) : b \in Bodies} :
        InitWith(obj, FALSE, NoParts, 0, [s \in Sessions |-> IF s = "s1" THEN -1 ELSE 0], TRUE)

NextDelete ==
    \E s \in {"s1"} :
        \/ ObjectRequest(s, BucketNames, {<<>>, <<1>>})
        \/ ObjectStep(s)
        \/ \E b \in BucketNames, prefix \in ListPrefixes : ListBucketObjects(s, b, prefix)

SpecDelete == InitDelete /\ [][NextDelete]_vars

\* SqliteMetadataStore::ListObjects on every table of at most MaxListed
\* objects of bucket b1, with or without an object of bucket b2, and every
\* prefix of at most MaxListed characters.
MaxListed == 2
ListAlphabet == {"a", "A", "_"}
ListNames == SeqsUpTo(ListAlphabet, MaxListed) \ {<<>>}
ListTables ==
    {{[bucket |-> "b1", name |-> n] : n \in ns} \cup other :
        ns \in {{}} \cup {{f[i] : i \in 1..MaxListed} : f \in [1..MaxListed -> ListNames]},
        other \in {{}, {[bucket |-> "b2", name |-> <<"a">>]}}}

InitList ==
    \E rows \in ListTables, bucket \in BucketNames, prefix \in SeqsUpTo(ListAlphabet, MaxListed) :
        InitCall("ListObjects", [rows |-> rows, bucket |-> bucket, prefix |-> prefix])

NextList == CallListObjects

SpecList == InitList /\ [][NextList]_vars

\* HttpServer::StartCleanupJob: with cleanup.enabled the timer is created and
\* armed once, and afterwards the worker threads run its handler; without it
\* there is no timer.
InitTimer ==
    \E enabled \in BOOLEAN :
        /\ InitConf(NoFile, FALSE, NoParts, 0, [s \in Sessions |-> 0], FALSE, FALSE)
        /\ call = NoCall
        /\ timer = IF enabled
                   THEN [NoTimer EXCEPT !.waits = 1, !.deadline = sweep_interval_seconds]
                   ELSE NoTimer
        /\ jwks = NoJwks
        /\ conn = NoConn

NextTimer ==
    \/ SteadyTick
    \/ \E t \in WorkerThreads : OnCleanupTimer(t)
    \/ \E t \in WorkerThreads : CleanupSweepReturns(t)
    \/ \E t \in WorkerThreads : ScheduleCleanupSweep(t)

SpecTimer == InitTimer /\ [][NextTimer]_vars

\* The cleanup task on its own, with more open uploads than one sweep takes,
\* when a step of a sweep can fail.
NextSweepFail ==
    \/ Sweeper
    \/ SweepStatementThrows
    \/ SweepRemoveDirFails
    \/ Tick

SpecSweepFail == InitSweep /\ [][NextSweepFail]_vars

\* JwksCache::GetKey called from the worker threads for any kid, while the
\* provider changes the document and the clock runs.
InitJwks ==
    \E doc \in Docs :
        /\ InitConf(NoFile, FALSE, NoParts, 0, [s \in Sessions |-> 0], FALSE, TRUE)
        /\ call = NoCall
        /\ timer = NoTimer
        /\ jwks = JwksOf(doc)
        /\ conn = NoConn

NextJwks ==
    \/ \E t \in WorkerThreads, kid \in Kids : GetKey(t, kid)
    \/ \E t \in WorkerThreads : JwksRefresh(t)
    \/ \E t \in WorkerThreads : JwksExpiry(t)
    \/ \E t \in WorkerThreads : JwksFind(t)
    \/ JwksRotate
    \/ Tick

SpecJwks == InitJwks /\ [][NextJwks]_vars

\* One connection, byte by byte: the client sends up to MaxRequests requests
\* with any of the targets, versions, credentials and bodies of the model and
\* may close; auth is enabled or not; the clock runs.
InitWire ==
    \E enabled \in BOOLEAN :
        /\ InitConf(NoFile, FALSE, NoParts, 0, [s \in Sessions |-> 0], FALSE, enabled)
        /\ call = NoCall
        /\ timer = NoTimer
        /\ jwks = NoJwks
        /\ conn = NoConn

NextWire ==
    \/ ClientSend
    \/ ClientClose
    \/ SessionOnReadHeader
    \/ SessionEndOfStream
    \/ SessionOnBody
    \/ SessionOnWrite
    \/ Tick

SpecWire == InitWire /\ [][NextWire]_vars

\* A streaming PUT of b1/o1 on one connection and a call of WriteObject for
\* b1/o1, each with any body, whose writes to the temp file can fail.
InitWrite ==
    \E obj \in {NoFile} \cup {File(b) : b \in Bodies} :
        InitWith(obj, FALSE, NoParts, 0, [s \in Sessions |-> IF s = "s1" THEN 1 ELSE 0], FALSE)

NextWrite ==
    \/ \E body \in Bodies : StartUpload("s1", "b1", "o1", body)
    \/ OnUploadChunk("s1")
    \/ OnUploadChunkWriteFails("s1")
    \/ FinishUpload("s1")
    \/ \E body \in Bodies : WriteObject("s2", "b1", "o1", body)
    \/ WriteObjectChunk("s2")
    \/ WriteObjectWriteFails("s2")

SpecWrite == InitWrite /\ [][NextWrite]_vars

\* ------------------------------------------------------------------ claims
Answered(r, kind) == r.pc = "done" /\ r.kind = kind

\* C1: a single-shot PUT of bytes B that is answered 200 reports
\* etag = hex SHA-256(B) and size = |B|, and the GET of the same object that
\* follows it (nothing in between) is answered 200 with exactly B.
C1_PutRoundTrip ==
    \A s \in Sessions :
        LET r == sess[s] IN
        /\ (Answered(r, "put") /\ r.resp.status = 200)
              => /\ r.resp.etag = EtagOf(r.body)
                 /\ r.resp.size = Len(r.body)
                 /\ objFiles[Key(r)] = File(r.body)
        /\ (Answered(r, "get") /\ prev.kind = "put"
                /\ prev.bucket = r.bucket /\ prev.object = r.object)
              => /\ r.resp.status = 200
                 /\ r.resp.body = prev.body

\* A GET was answered right after a PUT of a body of several buffers to the
\* same object was answered 200.
C1_Witness ==
    \E s \in Sessions :
        /\ Answered(sess[s], "get")
        /\ prev.kind = "put"
        /\ Key(prev) = Key(sess[s])
        /\ Len(prev.body) > kBufferSize
        /\ sess[s].resp.status = 200

\* The bytes whose ETag is e.
Unhash(e) == CHOOSE b \in PartBodies : EtagOf(b) = e

\* The part numbers a complete request lists.
Listed(r) == {r.expected[i][1] : i \in 1..Len(r.expected)}

\* The parts S of a listing, concatenated in ascending part-number order.
RECURSIVE ConcatAscending(_, _)
ConcatAscending(rows, S) ==
    IF S = {} THEN <<>>
    ELSE LET n == CHOOSE x \in S : \A y \in S : x <= y
         IN Unhash(rows[n].etag) \o ConcatAscending(rows, S \ {n})

\* The request of r is an upload that has passed its rename.
Renamed(r) ==
    \/ /\ r.kind = "put"
       /\ \/ r.pc = "put_upsert"
          \/ r.pc = "done" /\ (r.resp.status = 200 \/ r.resp.code = "METADATA_ERROR")
    \/ /\ r.kind = "complete"
       /\ \/ r.pc \in {"cmp_upsert", "cmp_state", "cmp_delparts", "cmp_delupload", "cmp_rmdir"}
          \/ r.pc = "done" /\ (r.resp.status = 200 \/ r.resp.code = "DB_ERROR")

\* The complete bytes of the upload r carries.
UploadBytes(r) ==
    IF r.kind = "put" THEN r.body ELSE ConcatAscending(r.listed, Listed(r))

\* Contents the canonical path of k may show: what it held at first (pre is
\* the initial store where no history is kept) and every upload that renamed.
Complete(k) ==
    (IF pre.objFiles[k].live THEN {pre.objFiles[k].bytes} ELSE {})
    \cup {UploadBytes(sess[s]) : s \in {t \in Sessions : Renamed(sess[t]) /\ Key(sess[t]) = k}}

\* C2: over any interleaving of PUTs, completes, DELETEs and GETs on one
\* object, the file at the canonical path is absent or holds the complete bytes
\* of one upload that reached its rename (or the complete content it had
\* before), and a GET that is answered 200 returns such a content, never a
\* partial file.
C2_CanonicalAbsentOrComplete ==
    /\ \A k \in ObjKeys : objFiles[k].live => objFiles[k].bytes \in Complete(k)
    /\ \A s \in Sessions :
          (Answered(sess[s], "get") /\ sess[s].resp.status = 200)
             => sess[s].resp.body \in Complete(Key(sess[s]))

\* A PUT of several buffers and a complete of several parts both renamed over
\* an object that existed, and the path shows one of the two.
C2_Witness ==
    \E s, t \in Sessions :
        /\ sess[s].kind = "put" /\ Renamed(sess[s]) /\ Len(sess[s].body) > kBufferSize
        /\ sess[t].kind = "complete" /\ Renamed(sess[t]) /\ Len(sess[t].expected) > 1
        /\ pre.objFiles[Key(sess[s])].live
        /\ objFiles[Key(sess[s])].live
        /\ objFiles[Key(sess[s])] # pre.objFiles[Key(sess[s])]

\* The sizes of the parts S of a listing, summed.
RECURSIVE SumSizes(_, _)
SumSizes(rows, S) ==
    IF S = {} THEN 0
    ELSE LET n == CHOOSE x \in S : TRUE IN rows[n].size + SumSizes(rows, S \ {n})

\* C3: a part upload that is answered 200 has stored the body under its part
\* number with ETag = hex SHA-256(body); a complete that is answered 200 has
\* published the concatenation of the listed parts in ascending part-number
\* order, the response etag and the row's etag are the SHA-256 of that
\* concatenation, and the size is the sum of the part sizes.
C3_MultipartDeterminism ==
    \A s \in Sessions :
        LET r == sess[s]
            all == ConcatAscending(r.listed, Listed(r))
        IN
        /\ (Answered(r, "part") /\ r.resp.status = 200)
              => /\ r.resp.etag = EtagOf(r.body)
                 /\ partRows[r.uid][r.pn] = Row(Len(r.body), EtagOf(r.body))
                 /\ mpDirs[r.uid].parts[r.pn] = File(r.body)
        /\ (Answered(r, "complete") /\ r.resp.status = 200)
              => /\ objFiles[Key(r)] = File(all)
                 /\ r.resp.etag = EtagOf(all)
                 /\ r.resp.size = SumSizes(r.listed, Listed(r))
                 /\ objRows[Key(r)] = Row(r.resp.size, r.resp.etag)
                 /\ Len(all) = r.resp.size

\* A complete that lists MaxPart parts with different bodies was answered 200.
C3_Witness ==
    \E s \in Sessions :
        /\ Answered(sess[s], "complete")
        /\ sess[s].resp.status = 200
        /\ Len(sess[s].expected) = MaxPart
        /\ sess[s].expected[1][2] # sess[s].expected[2][2]

\* No request is in flight.
Quiet == alive /\ \A s \in Sessions : sess[s].pc \in {"idle", "done"}

\* The row of k describes the file at the canonical path of k.
RowMatchesFile(k) ==
    /\ objFiles[k].live
    /\ objRows[k].size = Len(objFiles[k].bytes)
    /\ objRows[k].etag = EtagOf(objFiles[k].bytes)

\* C4: whenever no request is in flight, after any interleaving of PUT,
\* complete and DELETE requests, every object row has a file at its canonical
\* path whose length is the row's size_bytes and whose SHA-256 is the row's etag.
C4_RowsHaveFiles ==
    Quiet => \A k \in ObjKeys : objRows[k].live => RowMatchesFile(k)

\* C5: when the PUTs of all connections went to the same object, ran
\* concurrently and were all answered 200, the file on disk is the body of one
\* of them and the row carries the size and etag of that same file.
C5_LastRenameWins ==
    (/\ \A s \in Sessions : Answered(sess[s], "put") /\ sess[s].resp.status = 200
     /\ \A s, t \in Sessions : Key(sess[s]) = Key(sess[t]))
    => \A s \in Sessions :
          /\ objFiles[Key(sess[s])].live
          /\ \E t \in Sessions : objFiles[Key(sess[s])].bytes = sess[t].body
          /\ objRows[Key(sess[s])].live
          /\ RowMatchesFile(Key(sess[s]))

\* The moves initiated -> uploading -> {completed, aborted, expired}.
Ended == {"completed", "aborted", "expired"}
Moves(a, b) ==
    \/ a = b
    \/ a = "initiated" /\ b \in {"uploading"} \cup Ended
    \/ a = "uploading" /\ b \in Ended

\* C6: the state stored on an upload record only moves initiated ->
\* uploading -> terminal: no step of a part upload, complete, abort or sweep
\* writes a different state over a terminal one; the record can only be deleted.
C6_TerminalStatesStay ==
    [][\A u \in UploadIds :
          (uploads[u].live /\ uploads'[u].live) => Moves(uploads[u].state, uploads'[u].state)]_vars

\* Connection s reads a request of one of the kinds K in this step and finds
\* the upload record it names in one of the states S.
Finds(s, K, S) ==
    /\ sess[s].pc \in {"idle", "done"}
    /\ sess'[s] # sess[s]
    /\ sess'[s].kind \in K
    /\ sess'[s].upl.live
    /\ sess'[s].upl.state \in S

\* The request s reads in this step is answered 409 INVALID_STATE at once and
\* nothing is changed.
Rejected(s) ==
    /\ sess'[s].pc = "done"
    /\ sess'[s].resp.status = 409
    /\ sess'[s].resp.code = "INVALID_STATE"
    /\ store' = store

\* C7, as stated: a part upload, complete or abort request that finds the
\* upload record completed, aborted or expired is answered 409 INVALID_STATE
\* and changes neither metadata nor files.
C7_AnyRequestRejected ==
    [][\A s \in Sessions :
          Finds(s, {"part", "complete", "abort"}, Ended) => Rejected(s)]_vars

\* C7, amended: part upload and complete are rejected so in all three
\* states, abort only when the record is completed; an abort that finds the
\* record aborted or expired is accepted and goes on to its first statement;
\* a request that finds no record is answered 404 UPLOAD_NOT_FOUND.
C7_RejectedByState ==
    [][\A s \in Sessions :
          /\ Finds(s, {"part", "complete"}, Ended) => Rejected(s)
          /\ Finds(s, {"abort"}, {"completed"}) => Rejected(s)
          /\ Finds(s, {"abort"}, {"aborted", "expired"})
                => sess'[s].pc = "abt_state" /\ store' = store
          /\ (/\ sess[s].pc \in {"idle", "done"}
              /\ sess'[s] # sess[s]
              /\ sess'[s].kind \in {"part", "complete", "abort"}
              /\ ~uploads[sess'[s].uid].live)
                => /\ sess'[s].pc = "done"
                   /\ sess'[s].resp.status = 404
                   /\ sess'[s].resp.code = "UPLOAD_NOT_FOUND"
                   /\ store' = store]_vars

\* A part upload was rejected because the record was found expired, and an
\* abort because it was found completed.
C7_Witness ==
    \E s \in Sessions :
        /\ sess[s].pc = "done"
        /\ sess[s].resp.code = "INVALID_STATE"
        /\ sess[s].upl.live
        /\ \/ sess[s].kind = "part" /\ sess[s].upl.state \in {"expired", "aborted"}
           \/ sess[s].kind = "abort" /\ sess[s].upl.state = "completed"

\* The first entry of the parts list of r that fails its check ("ok": none).
RECURSIVE FirstFailure(_, _)
FirstFailure(r, i) ==
    IF i > Len(r.expected) THEN "ok"
    ELSE IF ~r.listed[r.expected[i][1]].live THEN "MISSING_PART"
    ELSE IF r.listed[r.expected[i][1]].etag # r.expected[i][2] THEN "ETAG_MISMATCH"
    ELSE FirstFailure(r, i + 1)

\* The parts list of r is non-empty with strictly ascending part numbers.
WellFormed(r) ==
    /\ r.expected # <<>>
    /\ \A i, j \in 1..Len(r.expected) : i < j => r.expected[i][1] < r.expected[j][1]

\* A complete of r found its upload initiated or uploading.
CompleteOfOpen(r) ==
    /\ Answered(r, "complete")
    /\ r.upl.live
    /\ r.upl.state \in {"initiated", "uploading"}

\* The listing the complete of r works with is the part rows it found.
Found(r) == [r EXCEPT !.listed = pre.partRows[r.uid]]

\* The complete of r was refused with this code, or stopped before the entry
\* at fault because the file of an earlier part could not be read.
RefusedWith(r, code) ==
    \/ r.resp.status = 409 /\ r.resp.code = code
    \/ r.resp.status = 500 /\ r.resp.code = "IO_ERROR"

FailedBeforeRename(r) ==
    /\ CompleteOfOpen(r)
    /\ r.resp.code \in {"INVALID_JSON", "INVALID_STATE", "MISSING_PART", "ETAG_MISMATCH",
                        "IO_ERROR"}

\* C9: a complete that fails before the rename (invalid list, missing part,
\* ETag mismatch, unreadable part) leaves the canonical path, the object row,
\* the upload's state, its part rows and its part files as they were and no
\* complete-<uuid> file behind, and the complete that follows it with a list
\* that passes the checks is answered 200 when the part files can be read.
C9_FailedCompleteChangesNothing ==
    \A s \in Sessions :
        LET r == Found(sess[s]) IN
        /\ FailedBeforeRename(r)
              => /\ objFiles = pre.objFiles
                 /\ objRows = pre.objRows
                 /\ uploads = pre.uploads
                 /\ partRows = pre.partRows
                 /\ mpDirs = pre.mpDirs
                 /\ \A u \in UploadIds, t \in Sessions : ~mpDirs[u].tmp[t].live
        /\ (/\ CompleteOfOpen(r)
            /\ prev.kind = "complete_failed"
            /\ prev.uid = r.uid
            /\ WellFormed(r)
            /\ FirstFailure(r, 1) = "ok")
              => r.resp.status = 200 \/ r.resp.code = "IO_ERROR"

\* A complete was answered 200 right after a complete of the same upload had
\* been refused, on an upload with stored parts.
C9_Witness ==
    \E s \in Sessions :
        /\ CompleteOfOpen(sess[s])
        /\ sess[s].resp.status = 200
        /\ prev.kind = "complete_failed"
        /\ prev.uid = sess[s].uid

\* C10: an abort that finds the upload initiated or uploading is answered
\* 204; afterwards the upload row and its part rows are gone, its directory
\* does not exist, and the objects and their rows are as they were.
C10_AbortRemovesUpload ==
    \A s \in Sessions :
        LET r == sess[s] IN
        (Answered(r, "abort") /\ r.upl.live /\ r.upl.state \in {"initiated", "uploading"})
           => /\ r.resp.status = 204
              /\ ~uploads[r.uid].live
              /\ partRows[r.uid] = NoPartRows
              /\ ~mpDirs[r.uid].live
              /\ objFiles = pre.objFiles
              /\ objRows = pre.objRows

\* An upload with a stored part was aborted while an object existed.
C10_Witness ==
    \E s \in Sessions :
        /\ Answered(sess[s], "abort")
        /\ sess[s].resp.status = 204
        /\ sess[s].upl.state = "uploading"
        /\ \E n \in PartNumbers : pre.partRows[sess[s].uid][n].live
        /\ \E k \in ObjKeys : objFiles[k].live

\* C11: a part upload of number n that is answered 200 leaves the row of
\* (upload_id, n) with the etag and size of its body and the file part-n with
\* exactly its bytes, whatever an earlier upload of n stored, and leaves the
\* other parts alone; when n already held the same bytes, nothing changes.
\* (One row per (upload_id, part_number) is the table's UNIQUE constraint.)
C11_PartReplace ==
    \A s \in Sessions :
        LET r == sess[s]
            row == Row(Len(r.body), EtagOf(r.body))
        IN
        (Answered(r, "part") /\ r.resp.status = 200)
           => /\ partRows[r.uid][r.pn] = row
              /\ mpDirs[r.uid].parts[r.pn] = File(r.body)
              /\ r.resp.etag = row.etag /\ r.resp.size = row.size
              /\ \A m \in PartNumbers \ {r.pn} :
                    /\ partRows[r.uid][m] = pre.partRows[r.uid][m]
                    /\ mpDirs[r.uid].parts[m] = pre.mpDirs[r.uid].parts[m]
              /\ (pre.partRows[r.uid][r.pn] = row /\ pre.mpDirs[r.uid].parts[r.pn] = File(r.body))
                    => Snapshot = pre

\* Part n held a longer body and was uploaded again with a shorter one.
C11_Witness ==
    \E s \in Sessions :
        /\ Answered(sess[s], "part")
        /\ sess[s].resp.status = 200
        /\ pre.partRows[sess[s].uid][sess[s].pn].live
        /\ pre.partRows[sess[s].uid][sess[s].pn].size > Len(sess[s].body)
        /\ Len(sess[s].body) > 0

\* Vocabulary of P7: an open upload past the cutoff; an upload that is gone.
PastCutoff(u) ==
    /\ uploads[u].live
    /\ uploads[u].state \in {"initiated", "uploading"}
    /\ uploads[u].expires_at + grace_period_seconds < now

Gone(u) ==
    /\ ~uploads[u].live
    /\ \A n \in PartNumbers : ~partRows[u][n].live
    /\ ~mpDirs[u].live

Valid(tok) ==
    /\ tok.present /\ tok.form = "ok" /\ tok.sig
    /\ tok.alg = "RS256" /\ tok.kid = "k1" /\ tok.iss = "issuer" /\ tok.aud = "audience"
    /\ tok.exp.has /\ now <= tok.exp.at + clock_skew_seconds
    /\ tok.nbf.has => now + clock_skew_seconds >= tok.nbf.at

NonPublic(kind) == kind \in RouteKinds \cup {"/metrics"}

\* C13: with auth enabled, a request to a path other than /healthz and
\* /readyz with no token or a token that fails verification is answered
\* 401 UNAUTHORIZED and changes nothing; /healthz and /readyz are answered
\* 200 whatever the header.
C13_UnauthorizedRejected ==
    \A s \in Sessions :
        LET r == sess[s] IN
        (auth.enabled /\ r.pc # "idle")
           => /\ (NonPublic(r.kind) /\ ~Valid(auth.token[s]))
                    => /\ r.pc = "done"
                       /\ r.resp.status = 401 /\ r.resp.code = "UNAUTHORIZED"
                       /\ Snapshot = pre
              /\ r.kind \in {"/healthz", "/readyz"}
                    => r.pc = "done" /\ r.resp.status = 200

\* C14: with auth enabled, a connection holds an upload temp file or has read
\* body bytes only for a request whose token verified; a request to a
\* non-public path whose token did not verify has opened no temp file and
\* read no byte of its body.
C14_VerifiedBeforeBody ==
    \A s \in Sessions :
        LET r == sess[s] IN
        auth.enabled
           => /\ (tempFiles[s].live \/ r.off > 0 \/ r.pc \in {"upload", "put_upsert"})
                    => Valid(auth.token[s])
              /\ (r.pc # "idle" /\ NonPublic(r.kind) /\ ~Valid(auth.token[s]))
                    => /\ tempFiles = pre.tempFiles
                       /\ ~tempFiles[s].live
                       /\ r.off = 0 /\ r.total = 0 /\ r.body = <<>>

\* An upload with a token that does not verify was answered 401.
C14_Witness ==
    \E s \in Sessions :
        /\ auth.enabled
        /\ Answered(sess[s], "put")
        /\ sess[s].resp.status = 401
        /\ auth.token[s].present

\* The defects of a token that 4.5 lists.
Defective(tok) ==
    /\ tok.present
    /\ \/ tok.form = "two_segments"
       \/ tok.alg = "none"
       \/ tok.kid \in {"absent", "", "k9"}
       \/ tok.iss = "other"
       \/ tok.aud = "other"
       \/ tok.exp.has /\ now > tok.exp.at + clock_skew_seconds
       \/ tok.nbf.has /\ now + clock_skew_seconds < tok.nbf.at
       \/ ~tok.sig

\* C15: a token with a wrong number of segments, another alg, a missing or
\* unknown kid, another issuer or audience, an exp in the past or an nbf in
\* the future (beyond the skew), or a bad signature is answered 401.
C15_DefectiveTokenRejected ==
    \A s \in Sessions :
        (auth.enabled /\ sess[s].pc # "idle" /\ NonPublic(sess[s].kind)
              /\ Defective(auth.token[s]))
           => /\ sess[s].pc = "done"
              /\ sess[s].resp.status = 401
              /\ sess[s].resp.code = "UNAUTHORIZED"

\* Vocabulary of 4.x: the integer a decimal numeral denotes.
IsNumber(str) == str # <<>> /\ \A i \in 1..Len(str) : IsDigit(str[i])

RECURSIVE NumberOf(_)
NumberOf(str) ==
    IF str = <<>> THEN 0
    ELSE 10 * NumberOf(SubSeq(str, 1, Len(str) - 1)) + DigitValue(str[Len(str)])

\* C16: a GET of a stored object of S bytes with Range bytes=s-e is answered
\* 206 with Content-Range bytes s-e/S, Content-Length e-s+1 and bytes s..e
\* when 0 <= s <= e < S (e = S-1 when the end is missing), and 416
\* INVALID_RANGE with Content-Range bytes */S when the start is missing,
\* s > e or s >= S.
C16_RangeResponse ==
    \A t \in Sessions :
        LET r == sess[t]
            h == r.range
            bytes == objFiles[Key(r)].bytes
            S == Len(bytes)
            s == NumberOf(h.start_str)
            e == IF h.end_str = <<>> THEN S - 1 ELSE NumberOf(h.end_str)
            served == /\ r.resp.status = 206
                      /\ r.resp.content_range =
                            [form |-> "bytes", first |-> s, last |-> e, size |-> S]
                      /\ r.resp.size = e - s + 1
                      /\ r.resp.body = SubSeq(bytes, s + 1, e + 1)
            refused == /\ r.resp.status = 416 /\ r.resp.code = "INVALID_RANGE"
                       /\ r.resp.content_range = [NoContentRange EXCEPT !.form = "star", !.size = S]
        IN
        (Answered(r, "get") /\ r.resp.status \notin {404, 500} /\ h.present /\ h.bytes /\ h.dash)
           => /\ (IsNumber(h.start_str) /\ (h.end_str = <<>> \/ IsNumber(h.end_str))
                     /\ s <= e /\ e < S) => served
              /\ h.start_str = <<>> => refused
              /\ (IsNumber(h.start_str) /\ (h.end_str = <<>> \/ IsNumber(h.end_str))
                     /\ (s > e \/ s >= S)) => refused

\* A range that ends before the last byte of the object was served.
C16_Witness ==
    \E t \in Sessions :
        /\ Answered(sess[t], "get")
        /\ sess[t].resp.status = 206
        /\ sess[t].resp.content_range.last + 1 < sess[t].resp.content_range.size
        /\ sess[t].resp.content_range.first > 0

\* C17: no request terminates the server process.
C17_ProcessSurvives == alive

\* C18: when the connection closes or a read fails while a single-shot upload
\* is streamed, the temp file of the upload is deleted and the canonical path
\* holds what it held before.
C18_ClosedUploadCleansUp ==
    \A s \in Sessions :
        (sess[s].pc = "closed" /\ sess[s].kind = "put" /\ Len(sess[s].body) <= max_body_bytes)
           => /\ ~tempFiles[s].live
              /\ objFiles = pre.objFiles
              /\ objRows = pre.objRows

\* C19: a single-shot PUT with a body above max_body_bytes is answered 413,
\* and leaves no object, no row and no temp file.
C19_OversizeRejected ==
    \A s \in Sessions :
        (sess[s].kind = "put" /\ Len(sess[s].body) > max_body_bytes)
           => /\ sess[s].pc = "done"
              /\ sess[s].resp.status = 413
              /\ ~tempFiles[s].live
              /\ objFiles = pre.objFiles
              /\ objRows = pre.objRows

\* C20: a request whose bucket or object name is not a safe name is answered
\* 400 INVALID_NAME.
C20_UnsafeNameRejected ==
    \A s \in Sessions :
        (sess[s].pc # "idle"
              /\ (sess[s].bucket \in UnsafeNames \/ sess[s].object \in UnsafeNames))
           => /\ sess[s].pc = "done"
              /\ sess[s].resp.status = 400
              /\ sess[s].resp.code = "INVALID_NAME"

\* Vocabulary of I1: the characters [A-Za-z0-9_.-], over the model's characters.
NameCharacter(c) == c \in {"a", "b", "o", "Z", "1", "2", "_", ".", "-"}

\* C21: is_safe_name(n) is true exactly when n is non-empty, no longer than
\* the limit, made of [A-Za-z0-9_.-] only, and neither "." nor "..".
C21_SafeNameExactly ==
    (call.fn = "IsSafeName" /\ call.done)
       => (call.ret <=> /\ Len(call.arg) >= 1
                        /\ Len(call.arg) <= max_name_size
                        /\ \A i \in 1..Len(call.arg) : NameCharacter(call.arg[i])
                        /\ call.arg \notin {<<".">>, <<".", ".">>})

\* The name ".." was refused.
C21_Witness ==
    /\ call.fn = "IsSafeName" /\ call.done /\ ~call.ret
    /\ call.arg = <<".", ".">>

\* Vocabulary of P9: the path of a target (what precedes the first '?'), and
\* the segments of a text: its maximal runs without '/', from left to right.
PathOf(target) ==
    LET marks == {i \in 1..Len(target) : target[i] = "?"} IN
    IF marks = {} THEN target
    ELSE SubSeq(target, 1, (CHOOSE i \in marks : \A j \in marks : i <= j) - 1)

Runs(text) ==
    {r \in (1..Len(text)) \X (1..Len(text)) :
        /\ r[1] <= r[2]
        /\ \A i \in r[1]..r[2] : text[i] # "/"
        /\ r[1] = 1 \/ text[r[1] - 1] = "/"
        /\ r[2] = Len(text) \/ text[r[2] + 1] = "/"}

RECURSIVE InOrder(_, _)
InOrder(text, runs) ==
    IF runs = {} THEN <<>>
    ELSE LET r == CHOOSE x \in runs : \A y \in runs : x[1] <= y[1] IN
         <<SubSeq(text, r[1], r[2])>> \o InOrder(text, runs \ {r})

Segments(text) == InOrder(text, Runs(text))

Placeholder(seg) == Len(seg) >= 2 /\ Head(seg) = "{" /\ seg[Len(seg)] = "}"

Matches(pattern, path) ==
    LET ps == Segments(pattern)
        vs == Segments(path)
    IN
    /\ Len(ps) = Len(vs)
    /\ \A k \in 1..Len(ps) : Placeholder(ps[k]) \/ ps[k] = vs[k]

\* C22: a path matches a pattern exactly when, query string and empty
\* segments dropped, they have as many segments and each literal segment of
\* the pattern equals the path's, each {name} segment being captured under
\* its name; the handler that runs is one of a route of the request's method
\* whose pattern matches, and when there is none the answer is 404 NOT_FOUND
\* and no handler runs.
C22_RouterMatching ==
    (call.fn = "Route" /\ call.done)
       => LET path == PathOf(call.arg.target)
              ret == call.ret
              hit(i) == Routes[i].method = call.arg.method /\ Matches(Routes[i].pattern, path)
          IN
          /\ \A i \in 1..Len(Routes) :
                Match(Routes[i].pattern, call.arg.target).ok
                   <=> Matches(Routes[i].pattern, call.arg.target)
          /\ (\A i \in 1..Len(Routes) : ~hit(i))
                => ret.status = 404 /\ ret.code = "NOT_FOUND" /\ ret.handler = 0
          /\ (\E i \in 1..Len(Routes) : hit(i))
                => /\ ret.handler \in 1..Len(Routes)
                   /\ hit(ret.handler)
                   /\ LET ps == Segments(Routes[ret.handler].pattern) IN
                      ret.params = {<<SubSeq(ps[k], 2, Len(ps[k]) - 1), Segments(path)[k]>> :
                                       k \in {k \in 1..Len(ps) : Placeholder(ps[k])}}

\* A target with a query string matched a pattern with a placeholder, which
\* captured the second segment.
C22_Witness ==
    /\ call.fn = "Route" /\ call.done
    /\ call.arg.target = <<"a", "/", "b", "?", "a">>
    /\ call.ret.handler = 2
    /\ call.ret.params = {<< <<"b">>, <<"b">> >>}

\* C23: no two rows of the buckets table have the same name; a create of a
\* name that exists is answered 409 ALREADY_EXISTS and leaves the table as it
\* was; of two creates of the same new name exactly one is answered 200.
C23_BucketNamesUnique ==
    /\ [](\A x, y \in buckets : x.name = y.name => x = y)
    /\ [][\A s \in Sessions :
            (~Answered(sess[s], "create_bucket") /\ Answered(sess'[s], "create_bucket")
             /\ \E row \in buckets : row.name = sess'[s].bucket /\ sess[s].pc = "idle")
               => /\ sess'[s].resp.status = 409
                  /\ sess'[s].resp.code = "ALREADY_EXISTS"
                  /\ buckets' = buckets]_vars
    /\ []((\A s \in Sessions : Answered(sess[s], "create_bucket") /\ sess[s].bucket = "b2")
             => \E s \in Sessions :
                   /\ sess[s].resp.status = 200
                   /\ \A t \in Sessions \ {s} : sess[t].resp.status = 409)

\* Both connections created "b2" at different times, and "b1" existed before.
C23_Witness ==
    /\ \A s \in Sessions : Answered(sess[s], "create_bucket") /\ sess[s].bucket = "b2"
    /\ now = MaxTime
    /\ \E row \in buckets : row.name = "b2" /\ row.created_at = 0

\* C24: a DELETE of an object whose file exists is answered 200 with
\* {"deleted":true} and removes the file and the row, the GET that follows it
\* is answered 404 and a listing that follows it does not show the object; a
\* DELETE of an object whose file is absent is answered 404 OBJECT_NOT_FOUND
\* and changes nothing.
C24_DeleteObject ==
    \A s \in Sessions :
        LET r == sess[s] IN
        /\ (Answered(r, "delete") /\ pre.objFiles[Key(r)].live)
              => /\ r.resp.status = 200 /\ r.resp.code = "deleted"
                 /\ ~objFiles[Key(r)].live
                 /\ ~objRows[Key(r)].live
        /\ (Answered(r, "delete") /\ ~pre.objFiles[Key(r)].live)
              => /\ r.resp.status = 404 /\ r.resp.code = "OBJECT_NOT_FOUND"
                 /\ Snapshot = pre
        /\ (Answered(r, "get") /\ prev.kind = "delete" /\ Key(prev) = Key(r))
              => r.resp.status = 404
        /\ (Answered(r, "list") /\ prev.kind = "delete" /\ prev.bucket = r.bucket)
              => \A i \in 1..Len(r.resp.objects) : r.resp.objects[i] # NameChars[prev.object]

\* A listing of the bucket followed the DELETE of its only object, and shows
\* nothing.
C24_Witness ==
    /\ Answered(sess["s1"], "list")
    /\ sess["s1"].bucket = "b1"
    /\ prev.kind = "delete" /\ prev.bucket = "b1"
    /\ sess["s1"].resp.objects = <<>>

\* C25: a listing of the objects of a bucket that is not in the metadata
\* store is answered 404 BUCKET_NOT_FOUND.
C25_ListUnknownBucket ==
    \A s \in Sessions :
        (Answered(sess[s], "list") /\ ~\E row \in buckets : row.name = sess[s].bucket)
           => sess[s].resp.status = 404 /\ sess[s].resp.code = "BUCKET_NOT_FOUND"

\* Vocabulary of list_objects: a name starts with a prefix, and the order of
\* names (by character, the shorter first).
StartsWith(name, prefix) ==
    Len(prefix) <= Len(name) /\ SubSeq(name, 1, Len(prefix)) = prefix

Ascending(names) ==
    \A i \in 1..(Len(names) - 1) : NameBefore(names[i], names[i + 1])

\* C26: list_objects(bucket, prefix) returns exactly the objects of the
\* bucket whose name starts with the prefix, each character of which is
\* matched literally and case-sensitively, each once, in ascending order of
\* name; the empty prefix returns all objects of the bucket.
C26_ListByPrefix ==
    (call.fn = "ListObjects" /\ call.done)
       => /\ {call.ret[i] : i \in 1..Len(call.ret)}
                = {row.name : row \in {x \in call.arg.rows :
                                          /\ x.bucket = call.arg.bucket
                                          /\ StartsWith(x.name, call.arg.prefix)}}
          /\ Ascending(call.ret)

\* C27: in every state, the states between the steps of a complete request
\* included, an upload record in state completed has no part rows and no
\* part files under its directory, and its object is at the canonical path
\* with a metadata row.
C27_CompletedHasNoParts ==
    \A u \in UploadIds :
        (uploads[u].live /\ uploads[u].state = "completed")
           => /\ \A n \in PartNumbers : ~partRows[u][n].live
              /\ \A n \in PartNumbers : ~mpDirs[u].parts[n].live
              /\ objFiles[<<uploads[u].bucket, uploads[u].object>>].live
              /\ objRows[<<uploads[u].bucket, uploads[u].object>>].live

\* C28: once a complete, an abort or a sweep of an upload has finished, the
\* directory of the upload does not exist, whatever part upload of the same
\* upload runs at the same time.
C28_DirectoryStaysRemoved ==
    \A u \in UploadIds :
        (/\ ~uploads[u].live
         /\ sweep.pc = "idle"
         /\ \A s \in Sessions : sess[s].uid = u /\ sess[s].kind \in {"complete", "abort"}
                                   => sess[s].pc \in {"idle", "done"})
           => ~mpDirs[u].live

\* C29: when two uploads of the same part number of one upload have both been
\* answered 200, the row's etag is the SHA-256 of the bytes of the part file
\* and its size is the file's length.
C29_SamePartConsistent ==
    \A s, t \in Sessions :
        (/\ s # t
         /\ Answered(sess[s], "part") /\ sess[s].resp.status = 200
         /\ Answered(sess[t], "part") /\ sess[t].resp.status = 200
         /\ sess[s].uid = sess[t].uid /\ sess[s].pn = sess[t].pn
         /\ uploads[sess[s].uid].live)
           => LET file == mpDirs[sess[s].uid].parts[sess[s].pn]
                  row == partRows[sess[s].uid][sess[s].pn]
              IN
              /\ file.live /\ row.live
              /\ row.etag = EtagOf(file.bytes)
              /\ row.size = Len(file.bytes)

\* Vocabulary of the cleanup task: the threads inside a sweep.
Sweeping == {t \in WorkerThreads : timer.pc[t] = "sweep"}

\* C30: sweeps never overlap: at most one sweep is in progress at any time,
\* the timer is armed again only after the sweep in progress has returned,
\* and each expiry of the timer runs at most one sweep.
C30_SweepsNeverOverlap ==
    /\ Cardinality(Sweeping) <= 1
    /\ timer.waits > 0 => Sweeping = {}
    /\ timer.sweeps <= timer.expiries
    /\ timer.waits <= 1

\* A second sweep is in progress, on the other thread, after the first one
\* lasted past the next deadline.
C30_Witness ==
    /\ timer.pc["t2"] = "sweep"
    /\ timer.sweeps = 2
    /\ timer.clock > 2 * sweep_interval_seconds

\* Vocabulary of the sweep: the cleanup task takes a step, and what belongs to
\* upload u (its record, its part rows, its directory) changes in a step.
SweepSteps == sweep' # sweep

Touched(u) == uploads'[u] # uploads[u] \/ partRows'[u] # partRows[u] \/ mpDirs'[u] # mpDirs[u]

\* C31: a sweep processes only uploads that its listing found in state
\* initiated or uploading with expires_at < now - grace_period, at most
\* max_uploads_per_sweep of them, the earliest expiry first; no step of it
\* changes the state, the rows or the directory of an upload that is not yet
\* expired or that is terminal already (other than expired by this sweep).
C31_SweepOnlyExpiredOpen ==
    /\ [][(sweep.pc = "idle" /\ sweep'.pc = "state")
            => /\ Len(sweep'.queue) <= max_uploads_per_sweep
               /\ \A i \in 1..Len(sweep'.queue) : PastCutoff(sweep'.queue[i])
               /\ \A i, j \in 1..Len(sweep'.queue) :
                     i < j => uploads[sweep'.queue[i]].expires_at <= uploads[sweep'.queue[j]].expires_at]_vars
    /\ [][SweepSteps
            => \A u \in DOMAIN uploads :
                  Touched(u)
                     => /\ u = Head(sweep.queue)
                        /\ uploads[u].live
                              => /\ uploads[u].expires_at + grace_period_seconds < now
                                 /\ uploads[u].state \in {"initiated", "uploading", "expired"}
                                 /\ uploads[u].state = "expired" => sweep.pc # "state"]_vars

\* C32: a step of a sweep that fails for one upload does not stop the sweep:
\* while a sweep is in progress every step leaves the process running and
\* the list of the sweep as it is or without its head, so that the uploads
\* left on it are processed and the sweep returns to the timer.
C32_SweepSurvivesFailures ==
    [][sweep.pc # "idle"
          => /\ alive'
             /\ sweep'.queue = sweep.queue \/ sweep'.queue = Tail(sweep.queue)]_vars
\* C33: a call of get_key refreshes first when the cached map is empty or
\* expired; a kid that is then absent costs exactly one more refresh and is
\* refused with UNAUTHORIZED when it is still absent; no call refreshes more
\* than twice; a kid that is cached and not expired is returned without any
\* refresh; and a kid that the provider added after the last load is resolved
\* by the lookup that asks for it, before the TTL has run out.
Returned(t) == jwks.th[t].pc = "done"
C33_GetKeyRefreshes ==
    \A t \in WorkerThreads :
        LET c == jwks.th[t] IN
        /\ c.pc \in {"find", "done"} /\ c.stale => c.refreshes >= 1
        /\ Returned(t) =>
            /\ c.refreshes = (IF c.stale THEN 1 ELSE 0) + (IF c.misses >= 1 THEN 1 ELSE 0)
            /\ c.refreshes <= 2
            /\ c.misses <= 2
            /\ c.misses = 2 => c.ret = "UNAUTHORIZED"
            /\ ~c.stale /\ c.cached => c.refreshes = 0 /\ c.ret = "key"
            /\ c.refreshes >= 1 /\ c.fetched.kind = "jwks" /\ c.kid \in c.fetched.kids
                   => c.ret = "key"
C33_Witness ==
    \E t \in WorkerThreads :
        /\ Returned(t)
        /\ ~jwks.th[t].stale /\ ~jwks.th[t].cached
        /\ jwks.th[t].refreshes = 1 /\ jwks.th[t].ret = "key"
        /\ now < jwks.expires_at

\* C34: a refresh that fails (the fetch fails, the body does not parse, the
\* document has no usable RSA key) leaves the cached map and expires_at as
\* they were; the map changes only in a successful refresh, which replaces it
\* as a whole by the keys of the fetched document, and expires_at changes only
\* to now + ttl after such a replacement; and no caller of get_key is inside
\* the cache while another one is, so none sees a map that is half replaced
\* or a map without its new expiry.
InsideGetKey(t) == jwks.th[t].pc \in {"refresh", "expiry", "find"}
RefreshFails(t) == jwks.th[t].pc = "refresh" /\ jwks'.th[t].pc = "done"
C34_RefreshAllOrNothing ==
    /\ [](\A t, u \in WorkerThreads : InsideGetKey(t) /\ InsideGetKey(u) => t = u)
    /\ [][/\ \A t \in WorkerThreads :
                 RefreshFails(t) => /\ jwks'.keys = jwks.keys
                                    /\ jwks'.expires_at = jwks.expires_at
          /\ jwks'.keys # jwks.keys =>
                 \E t \in WorkerThreads :
                     /\ jwks.th[t].pc = "refresh" /\ jwks'.th[t].pc = "expiry"
                     /\ jwks.doc.kind = "jwks" /\ jwks.doc.kids # {}
                     /\ jwks'.keys = jwks.doc.kids
          /\ jwks'.expires_at # jwks.expires_at =>
                 \E t \in WorkerThreads :
                     /\ jwks.th[t].pc = "expiry"
                     /\ jwks'.expires_at = now + cache_ttl_seconds]_vars
C34_Witness ==
    \E t \in WorkerThreads :
        /\ jwks.th[t].pc = "done" /\ jwks.th[t].ret = "UNAUTHORIZED"
        /\ jwks.th[t].refreshes = 1 /\ jwks.th[t].fetched.kind # "jwks"
        /\ jwks.keys # {} /\ now >= jwks.expires_at

\* C35: within one connection the session reads the next request header only
\* when the response to the previous request has been written completely;
\* the responses written are one per request read, in the order the requests
\* were read; when a write ends, the connection is closed if the write failed
\* or the response needs EOF (an HTTP/1.0 exchange) and the session is back
\* at READ_HEADER otherwise; a header that does not parse closes the
\* connection; and a closed connection is not read from or written to again.
WriteEnds == conn.pc = "write" /\ conn'.pc # "write"
Written == Len(conn'.out) = Len(conn.out) + 1
SessionStep == conn' # conn /\ conn'.sent = conn.sent /\ conn'.eof = conn.eof
C35_OneResponsePerRequestInOrder ==
    /\ [](/\ \A i \in 1..Len(conn.out) : conn.out[i].req = i
          /\ Len(conn.out) \in {conn.parsed - 1, conn.parsed}
          /\ conn.pc = "read_header" => Len(conn.out) = conn.parsed)
    /\ [][/\ conn'.parsed # conn.parsed =>
                 /\ conn.pc = "read_header"
                 /\ Len(conn.out) = conn.parsed
                 /\ conn'.parsed = conn.parsed + 1
          /\ WriteEnds =>
                 IF Written /\ conn.cur.hdr.version = 11
                 THEN conn'.pc = "read_header"
                 ELSE conn'.pc = "closed"
          /\ conn.pc = "read_header" /\ conn.wire # <<>> /\ Head(conn.wire).hdr = NoHdr
             /\ SessionStep
                 => conn'.pc = "closed"
          /\ conn.pc = "closed" =>
                 /\ conn'.pc = "closed"
                 /\ conn'.out = conn.out /\ conn'.parsed = conn.parsed
                 /\ conn'.wire = conn.wire]_vars
C35_Witness ==
    /\ Len(conn.out) = 2
    /\ conn.out[1].version = 11 /\ conn.out[2].version = 10
    /\ conn.pc = "closed"
    /\ conn.wire # <<>>

\* C38: every request the session acts on is one the client sent as a
\* request: what the parser is given as a header is never a part of the body
\* of a request that was answered before its body was read.
ActsOn == conn.parsed > 0 /\ conn.cur.hdr # NoHdr
C38_BodyNeverParsedAsHeader ==
    ActsOn => conn.cur.role = "header"

\* C39: the context a request is handled with carries the claims of that
\* request's own verified token when auth is enabled and the path is not
\* public, and no claims otherwise, whatever the earlier requests of the
\* connection carried.
Handled == conn.pc = "write" /\ conn.cur.hdr.kind \in {"list", "status"} /\ conn.resp.status = 200
C39_ClaimsOfOwnTokenOnly ==
    Handled =>
        conn.ctx = IF auth.enabled /\ conn.cur.hdr.kind # "status"
                   THEN [has |-> TRUE, subject |-> conn.cur.hdr.sub]
                   ELSE NoClaims
C39_Witness ==
    /\ Handled
    /\ conn.parsed = 2
    /\ conn.out[1].status = 200
    /\ conn.ctx = [has |-> TRUE, subject |-> "bob"]
    /\ conn.cur.role = "header"

\* C36: when a write to the temp file fails, in write_object or in the
\* streaming PUT, the operation reports IO_ERROR, the temp file is gone and
\* the canonical path is what it was.
WriteFailed(s) ==
    /\ sess[s].pc \in {"upload", "wo_write"}
    /\ sess'[s].pc = "done" /\ sess'[s].resp.status # 200
C36_WriteFailureCleansUp ==
    [][\A s \in Sessions :
          WriteFailed(s) => /\ sess'[s].resp.code = "IO_ERROR"
                            /\ tempFiles'[s] = NoFile
                            /\ objFiles' = objFiles]_vars

\* C37: of a complete, an abort and the expiry sweep of one upload at most
\* one takes effect: when a complete of the upload was answered 200, no abort
\* of the same upload was answered 204; and while a complete has the object
\* published and is on its way to its 200, the record of the upload is not
\* in state aborted or expired.
Completed200(s, u) ==
    Answered(sess[s], "complete") /\ sess[s].resp.status = 200 /\ sess[s].uid = u
Aborted204(s, u) ==
    Answered(sess[s], "abort") /\ sess[s].resp.status = 204 /\ sess[s].uid = u
Publishing(s, u) ==
    /\ sess[s].kind = "complete" /\ sess[s].uid = u
    /\ sess[s].pc \in {"cmp_upsert", "cmp_state", "cmp_delparts", "cmp_delupload", "cmp_rmdir"}
C37_OneOfCompleteAbortSweep ==
    \A u \in UploadIds, s \in Sessions :
        /\ Completed200(s, u) => \A t \in Sessions : ~Aborted204(t, u)
        /\ Publishing(s, u) /\ uploads[u].live => uploads[u].state \notin {"aborted", "expired"}

\* C40: every 206 response describes a range inside the object: first <=
\* last < size, and Content-Length = last - first + 1 <= size - first; and a
\* GET with a Range header on an empty object that is answered at all is
\* answered 416.
C40_RangeInsideObject ==
    \A t \in Sessions :
        LET r == sess[t]
            cr == r.resp.content_range
            size == Len(objFiles[Key(r)].bytes)
        IN
        /\ (Answered(r, "get") /\ r.resp.status = 206)
              => /\ cr.size = size
                 /\ cr.first <= cr.last /\ cr.last < size
                 /\ r.resp.size = cr.last - cr.first + 1
                 /\ r.resp.size <= size - cr.first
        /\ (Answered(r, "get") /\ r.range.present /\ objFiles[Key(r)].live /\ size = 0)
              => r.resp.status = 416

====
